---- MODULE Spec2Model ----
(***************************************************************************)
(* megastone: the segmented memory model (mem/memory.py, mem/segments.py,  *)
(* mem/buffer_memory.py) and the emulator-backed memory                    *)
(* (debug/emulator.py), as a state machine.                                *)
(*                                                                         *)
(* A memory is a dict of segments in insertion order (segs).  Three        *)
(* concrete memories are modelled, chosen in Init and fixed afterwards:    *)
(*   "buffer"    BufferMemory: map through _add_segment, read_data and     *)
(*               write_data with its own _get_data_offsets;                *)
(*   "splitting" the same buffer segments read and written through         *)
(*               SplittingSegmentMemory._read/_write;                      *)
(*   "unicorn"   UnicornMemory: page-aligned map into the engine, reads    *)
(*               and writes delegated to the engine (uc).                  *)
(* A byte buffer is kept sparsely: data maps the offsets holding a         *)
(* non-zero byte to that byte, every other offset of the buffer reads 0.   *)
(***************************************************************************)
EXTENDS Integers, Sequences, FiniteSets, TLC

VARIABLES kind, segs, uc, last, nwrites, dbg, db

vars == <<kind, segs, uc, last, nwrites, dbg, db>>

(***************************** bounds ***************************************)
\* longest byte vector given to write/load and longest read
MaxLen == 3
\* number of write calls in one behaviour of SpecIO
MaxWrites == 2
\* hooks added, runs started and instructions executed per run in SpecDbg
MaxHooks == 2
MaxRuns == 2
MaxSteps == 3
MaxEntries == 2
MaxStackOps == 3

(************************* program constants ********************************)
MIN_ALLOC_ADDRESS == 4096
ALLOC_ROUND_SIZE == 4096
PAGE_SIZE == 4096
DISASSEMBLY_CHUNK_SIZE == 1024

\* AccessType flags, as sets of letters
NONE == {}
R == {"R"}
RX == {"R", "X"}
W == {"W"}
RWX == {"R", "W", "X"}
X == {"X"}

Kinds == {"buffer", "splitting", "unicorn"}

(***************************** helpers **************************************)
Max(a, b) == IF a >= b THEN a ELSE b
Min(a, b) == IF a <= b THEN a ELSE b

\* megastone.util.round_up(n, size)
round_up(n, size) == ((n + size - 1) \div size) * size

RECURSIVE MaxOf(_)
MaxOf(S) ==
    IF S = {} THEN 0
    ELSE LET x == CHOOSE y \in S : TRUE
         IN  IF S = {x} THEN x ELSE Max(x, MaxOf(S \ {x}))

\* bytes/bytearray slice data[from : to] (0-based, to exclusive), Python rules
Slice(data, from, to) ==
    LET hi == Min(to, Len(data))
    IN  IF hi <= from THEN << >>
        ELSE [i \in 1..(hi - from) |-> data[from + i]]

EmptyData == [o \in {} |-> 0]

(****************************** errors **************************************)
\* An exception: its class, and for MemoryAccessError the Access record
\* (atype, address, size, value) and the cause.  value is {} for None.
NoError ==
    [type |-> "none", cause |-> "", atype |-> "", address |-> -1,
     size |-> -1, value |-> {}]

MegastoneError(msg) ==
    [type |-> "MegastoneError", cause |-> msg, atype |-> "", address |-> -1,
     size |-> -1, value |-> {}]

\* ValueError(f'Access unmapped memory: 0x{curr_address:X}')
ValueError(curr_address) ==
    [type |-> "ValueError", cause |-> "Access unmapped memory", atype |-> "",
     address |-> curr_address, size |-> -1, value |-> {}]

\* MemoryAccessError(Access(atype, address, size, avalue), cause)
MemoryAccessError(atype, address, size, avalue, cause) ==
    [type |-> "MemoryAccessError", cause |-> cause, atype |-> atype,
     address |-> address, size |-> size, value |-> avalue]

\* unicorn.UcError raised by the engine
UcError(errno) ==
    [type |-> "UcError", cause |-> errno, atype |-> "", address |-> -1,
     size |-> -1, value |-> {}]

(***************************** segments *************************************)
\* Segment(name, start, size, perms, mem); data is BufferSegment._data
Segment(name, start, size, perms) ==
    [name |-> name, start |-> start, size |-> size, perms |-> perms,
     data |-> EmptyData]

\* BufferSegment.__init__: self._data = bytearray(size)
BufferSegment(name, start, size, perms) ==
    [Segment(name, start, size, perms) EXCEPT !.data = EmptyData]

End(seg) == seg.start + seg.size

Overlaps(self, other) == self.start < End(other) /\ other.start < End(self)

ContainsAddress(seg, address) == seg.start <= address /\ address < End(seg)

\* SegmentMemory._get_segment_by_address: index of the first segment, in
\* dict order, that contains the address; 0 stands for KeyError
GetSegmentByAddress(ss, address) ==
    IF \E i \in 1..Len(ss) : ContainsAddress(ss[i], address)
    THEN CHOOSE i \in 1..Len(ss) :
            /\ ContainsAddress(ss[i], address)
            /\ \A j \in 1..(i - 1) : ~ContainsAddress(ss[j], address)
    ELSE 0

\* SegmentMemory._get_segment_by_name / DictSegmentMemory._segments[name]
GetSegmentByName(ss, name) ==
    IF \E i \in 1..Len(ss) : ss[i].name = name
    THEN CHOOSE i \in 1..Len(ss) : ss[i].name = name
    ELSE 0

\* an _add_segment without the overlap loop
AddSegmentNoOverlapCheck(ss, seg) ==
    IF GetSegmentByName(ss, seg.name) # 0
    THEN [segs |-> ss, err |-> MegastoneError("name exists")]
    ELSE [segs |-> Append(ss, seg), err |-> NoError]

\* an _add_segment without the name check
AddSegmentNoNameCheck(ss, seg) ==
    IF \E i \in 1..Len(ss) : Overlaps(ss[i], seg)
    THEN [segs |-> ss, err |-> MegastoneError("Segment overlap")]
    ELSE [segs |-> Append(ss, seg), err |-> NoError]

\* DictSegmentMemory._add_segment
AddSegment(ss, seg) ==
    IF GetSegmentByName(ss, seg.name) # 0
    THEN [segs |-> ss, err |-> MegastoneError("name exists")]
    ELSE IF \E i \in 1..Len(ss) : Overlaps(ss[i], seg)
    THEN [segs |-> ss, err |-> MegastoneError("Segment overlap")]
    ELSE [segs |-> Append(ss, seg), err |-> NoError]

(************************ buffer storage *************************************)
\* bytearray slice read  buf[start : end]  of a buffer of the given size
GetSlice(seg, start, end) ==
    LET hi == Min(end, seg.size)
    IN  IF hi <= start THEN << >>
        ELSE [i \in 1..(hi - start) |->
                 IF (start + i - 1) \in DOMAIN seg.data
                 THEN seg.data[start + i - 1] ELSE 0]

\* a slice assignment that zeroes the rest of the buffer
SetSliceReplacing(seg, start, chunk) ==
    [seg EXCEPT !.data =
        [o \in {start + i - 1 : i \in {j \in 1..Len(chunk) : chunk[j] # 0}}
            |-> chunk[o - start + 1]]]

\* bytearray slice assignment  buf[start : start+len(chunk)] = chunk.  Every
\* caller passes a chunk exactly as long as the slice it replaces, so the
\* buffer keeps its length.
SetSlice(seg, start, chunk) ==
    LET touched(o) == start <= o /\ o < start + Len(chunk)
        val(o) == IF touched(o) THEN chunk[o - start + 1] ELSE seg.data[o]
        dom == {o \in DOMAIN seg.data : ~touched(o)}
                 \cup {start + i - 1 : i \in {j \in 1..Len(chunk) : chunk[j] # 0}}
    IN  [seg EXCEPT !.data = [o \in dom |-> val(o)]]

(************************* BufferMemory *************************************)
\* a map that drops perms and leaves the segment with the default RWX
BufMapDefaultPerms(ss, name, start, size, perms) ==
    AddSegment(ss, BufferSegment(name, start, size, RWX))

\* BufferMemory.map
BufMap(ss, name, start, size, perms) ==
    AddSegment(ss, BufferSegment(name, start, size, perms))

\* BufferMemory._get_data_offsets, run to its end or to the exception:
\* chunks are the (segment, start_offset, end_offset) yielded so far, gap is
\* the curr_address of the ValueError
RECURSIVE BufWalk(_, _, _, _)
BufWalk(ss, curr_address, end_address, acc) ==
    IF ~(curr_address < end_address)
    THEN [ok |-> TRUE, chunks |-> acc, gap |-> -1]
    ELSE LET i == GetSegmentByAddress(ss, curr_address)
         IN  IF i = 0
             THEN [ok |-> FALSE, chunks |-> acc, gap |-> curr_address]
             ELSE LET start_offset == curr_address - ss[i].start
                      end_offset == Min(end_address - ss[i].start, ss[i].size)
                  IN  BufWalk(ss, ss[i].start + end_offset, end_address,
                              Append(acc, <<i, start_offset, end_offset>>))

\* a _get_data_offsets that looks the first address up before the loop test
BufGetDataOffsetsLookupFirst(ss, address, size) ==
    IF GetSegmentByAddress(ss, address) = 0
    THEN [ok |-> FALSE, chunks |-> << >>, gap |-> address]
    ELSE BufWalk(ss, address, address + size, << >>)

BufGetDataOffsets(ss, address, size) ==
    BufWalk(ss, address, address + size, << >>)

\* a write_data loop that never advances offset: every chunk is cut from
\* the start of data
RECURSIVE BufWriteChunksNoAdvance(_, _, _, _)
BufWriteChunksNoAdvance(ss, chunks, data, offset) ==
    IF chunks = << >> THEN ss
    ELSE LET seg == Head(chunks)[1]
             start == Head(chunks)[2]
             end == Head(chunks)[3]
             ss2 == [ss EXCEPT ![seg] =
                        SetSlice(ss[seg], start, Slice(data, 0, end - start))]
         IN  BufWriteChunksNoAdvance(ss2, Tail(chunks), data, offset)

\* the loop body of write_data over the planned chunks
RECURSIVE BufWriteChunks(_, _, _, _)
BufWriteChunks(ss, chunks, data, offset) ==
    IF chunks = << >> THEN ss
    ELSE LET seg == Head(chunks)[1]
             start == Head(chunks)[2]
             end == Head(chunks)[3]
             chunk_size == end - start
             ss2 == [ss EXCEPT ![seg] =
                        SetSlice(ss[seg], start,
                                 Slice(data, offset, offset + chunk_size))]
         IN  BufWriteChunks(ss2, Tail(chunks), data, offset + chunk_size)

\* a write_data that iterates the generator without list(): the chunks before
\* the gap are written before the exception is raised
BufWriteDataLazy(ss, address, data) ==
    LET plan == BufGetDataOffsets(ss, address, Len(data))
    IN  [segs |-> BufWriteChunks(ss, plan.chunks, data, 0),
         err |-> IF plan.ok THEN NoError ELSE ValueError(plan.gap)]

\* a write_data that refuses a chunk of a segment without W
BufWriteDataChecked(ss, address, data) ==
    LET plan == BufGetDataOffsets(ss, address, Len(data))
    IN  IF ~plan.ok
        THEN [segs |-> ss, err |-> ValueError(plan.gap)]
        ELSE IF \E c \in 1..Len(plan.chunks) :
                    "W" \notin ss[plan.chunks[c][1]].perms
        THEN [segs |-> ss,
              err |-> MemoryAccessError("W", address, Len(data), {data},
                                        "protected")]
        ELSE [segs |-> BufWriteChunks(ss, plan.chunks, data, 0),
              err |-> NoError]

\* BufferMemory.write_data
BufWriteData(ss, address, data) ==
    LET plan == BufGetDataOffsets(ss, address, Len(data))
    IN  IF ~plan.ok
        THEN [segs |-> ss, err |-> ValueError(plan.gap)]
        ELSE [segs |-> BufWriteChunks(ss, plan.chunks, data, 0),
              err |-> NoError]

RECURSIVE BufJoin(_, _)
BufJoin(ss, chunks) ==
    IF chunks = << >> THEN << >>
    ELSE GetSlice(ss[Head(chunks)[1]], Head(chunks)[2], Head(chunks)[3])
            \o BufJoin(ss, Tail(chunks))

\* BufferMemory.read_data
BufReadData(ss, address, size) ==
    LET plan == BufGetDataOffsets(ss, address, size)
    IN  IF ~plan.ok
        THEN [err |-> ValueError(plan.gap), ret |-> << >>]
        ELSE [err |-> NoError, ret |-> BufJoin(ss, plan.chunks)]

(********************* SplittingSegmentMemory *******************************)
\* _read_segment(segment, offset, size) on a buffer segment
ReadSegment(seg, offset, size) == GetSlice(seg, offset, offset + size)

\* _write_segment(segment, offset, data) on a buffer segment
WriteSegment(seg, offset, data) == SetSlice(seg, offset, data)

\* SplittingSegmentMemory._get_data_offsets, run to its end or to the
\* exception: chunks are the (segment, start_offset, size) yielded so far
RECURSIVE SplitWalk(_, _, _, _)
SplitWalk(ss, curr_address, end_address, acc) ==
    IF ~(curr_address < end_address)
    THEN [ok |-> TRUE, chunks |-> acc]
    ELSE LET i == GetSegmentByAddress(ss, curr_address)
         IN  IF i = 0
             THEN [ok |-> FALSE, chunks |-> acc]
             ELSE LET start_offset == curr_address - ss[i].start
                      end_offset == Min(end_address - ss[i].start, ss[i].size)
                  IN  SplitWalk(ss, ss[i].start + end_offset, end_address,
                                Append(acc, <<i, start_offset,
                                              end_offset - start_offset>>))

SplitGetDataOffsets(ss, address, size, atype, avalue) ==
    LET walk == SplitWalk(ss, address, address + size, << >>)
    IN  [ok |-> walk.ok,
         chunks |-> walk.chunks,
         err |-> IF walk.ok THEN NoError
                 ELSE MemoryAccessError(atype, address, size, avalue,
                                        "unmapped")]

\* a _write loop that never advances offset
RECURSIVE SplitWriteChunksNoAdvance(_, _, _, _)
SplitWriteChunksNoAdvance(ss, chunks, data, offset) ==
    IF chunks = << >> THEN ss
    ELSE LET seg == Head(chunks)[1]
             start == Head(chunks)[2]
             size == Head(chunks)[3]
             ss2 == [ss EXCEPT ![seg] =
                        WriteSegment(ss[seg], start, Slice(data, 0, size))]
         IN  SplitWriteChunksNoAdvance(ss2, Tail(chunks), data, offset)

\* the loop body of _write over the planned chunks
RECURSIVE SplitWriteChunks(_, _, _, _)
SplitWriteChunks(ss, chunks, data, offset) ==
    IF chunks = << >> THEN ss
    ELSE LET seg == Head(chunks)[1]
             start == Head(chunks)[2]
             size == Head(chunks)[3]
             ss2 == [ss EXCEPT ![seg] =
                        WriteSegment(ss[seg], start,
                                     Slice(data, offset, offset + size))]
         IN  SplitWriteChunks(ss2, Tail(chunks), data, offset + size)

\* a _write that iterates the generator without list()
SplitWriteLazy(ss, address, data) ==
    LET plan == SplitGetDataOffsets(ss, address, Len(data), "W", {data})
    IN  [segs |-> SplitWriteChunks(ss, plan.chunks, data, 0),
         err |-> plan.err]

\* SplittingSegmentMemory._write
SplitWrite(ss, address, data) ==
    LET plan == SplitGetDataOffsets(ss, address, Len(data), "W", {data})
    IN  IF ~plan.ok
        THEN [segs |-> ss, err |-> plan.err]
        ELSE [segs |-> SplitWriteChunks(ss, plan.chunks, data, 0),
              err |-> NoError]

RECURSIVE SplitJoin(_, _)
SplitJoin(ss, chunks) ==
    IF chunks = << >> THEN << >>
    ELSE ReadSegment(ss[Head(chunks)[1]], Head(chunks)[2], Head(chunks)[3])
            \o SplitJoin(ss, Tail(chunks))

\* SplittingSegmentMemory._read
SplitRead(ss, address, size) ==
    LET plan == SplitGetDataOffsets(ss, address, size, "R", {})
    IN  IF ~plan.ok
        THEN [err |-> plan.err, ret |-> << >>]
        ELSE [err |-> NoError, ret |-> SplitJoin(ss, plan.chunks)]

(**************************** the engine ************************************)
\* The engine (unicorn.Uc) as UnicornMemory uses it: regions are the mapped
\* ranges (start, size, prot), mem the non-zero bytes by address.  Model
\* addresses lie far below the end of the engine's address space.
NoEngine == [regions |-> {}, mem |-> EmptyData]

UC_PROT_NONE == 0

\* PERM_TO_UC_PROT: UC_PROT_READ, UC_PROT_WRITE, UC_PROT_EXEC
PERM_TO_UC_PROT == [p \in {"R", "W", "X"} |->
                       IF p = "R" THEN 1 ELSE IF p = "W" THEN 2 ELSE 4]

\* perms_to_uc_prot: the OR of the bits of the flags in perms
perms_to_uc_prot(perms) ==
    UC_PROT_NONE
    + (IF "R" \in perms THEN PERM_TO_UC_PROT["R"] ELSE 0)
    + (IF "W" \in perms THEN PERM_TO_UC_PROT["W"] ELSE 0)
    + (IF "X" \in perms THEN PERM_TO_UC_PROT["X"] ELSE 0)

UcMapped(u, a) ==
    \E r \in u.regions : r.start <= a /\ a < r.start + r.size

\* every address of [address, address+size) lies in a mapped region
UcRangeMapped(u, address, size) ==
    \A a \in address..(address + size - 1) : UcMapped(u, a)

\* Uc.mem_map(start, size, prot): the engine refuses an empty range, an
\* unaligned one and one that overlaps a mapped region
uc_mem_map(u, start, size, prot) ==
    IF size = 0 \/ start % PAGE_SIZE # 0 \/ size % PAGE_SIZE # 0
    THEN [uc |-> u, err |-> UcError("UC_ERR_ARG")]
    ELSE IF \E r \in u.regions :
                r.start < start + size /\ start < r.start + r.size
    THEN [uc |-> u, err |-> UcError("UC_ERR_MAP")]
    ELSE [uc |-> [u EXCEPT !.regions = @ \cup
                     {[start |-> start, size |-> size, prot |-> prot]}],
          err |-> NoError]

\* Uc.mem_write(address, data): checks the whole range, then copies
uc_mem_write(u, address, data) ==
    IF ~UcRangeMapped(u, address, Len(data))
    THEN [uc |-> u, err |-> UcError("UC_ERR_WRITE_UNMAPPED")]
    ELSE LET touched(a) == address <= a /\ a < address + Len(data)
             val(a) == IF touched(a) THEN data[a - address + 1]
                       ELSE u.mem[a]
             dom == {a \in DOMAIN u.mem : ~touched(a)}
                      \cup {address + i - 1 :
                               i \in {j \in 1..Len(data) : data[j] # 0}}
         IN  [uc |-> [u EXCEPT !.mem = [a \in dom |-> val(a)]],
              err |-> NoError]

\* Uc.mem_read(address, size)
uc_mem_read(u, address, size) ==
    IF ~UcRangeMapped(u, address, size)
    THEN [err |-> UcError("UC_ERR_READ_UNMAPPED"), ret |-> << >>]
    ELSE [err |-> NoError,
          ret |-> [i \in 1..size |->
                      IF (address + i - 1) \in DOMAIN u.mem
                      THEN u.mem[address + i - 1] ELSE 0]]

(************************** UnicornMemory ***********************************)
\* Emulator.round_up
EmulatorRoundUp(n) == round_up(n, PAGE_SIZE)

\* a map that forgets the alignment test on start
UcMapNoAlignCheck(ss, u, name, start, size, perms) ==
    LET rsize == IF size % PAGE_SIZE # 0 THEN EmulatorRoundUp(size)
                 ELSE size
        added == AddSegment(ss, Segment(name, start, rsize, perms))
    IN  IF added.err # NoError
        THEN [segs |-> ss, uc |-> u, err |-> added.err]
        ELSE LET m == uc_mem_map(u, start, rsize, perms_to_uc_prot(perms))
             IN  [segs |-> added.segs, uc |-> m.uc, err |-> m.err]

\* UnicornMemory.map
UcMap(ss, u, name, start, size, perms) ==
    IF start % PAGE_SIZE # 0
    THEN [segs |-> ss, uc |-> u, err |-> MegastoneError("not aligned")]
    ELSE LET rsize == IF size % PAGE_SIZE # 0 THEN EmulatorRoundUp(size)
                      ELSE size
             added == AddSegment(ss, Segment(name, start, rsize, perms))
         IN  IF added.err # NoError
             THEN [segs |-> ss, uc |-> u, err |-> added.err]
             ELSE LET m == uc_mem_map(u, start, rsize,
                                      perms_to_uc_prot(perms))
                  IN  [segs |-> added.segs, uc |-> m.uc, err |-> m.err]

\* UnicornMemory.write_data
UcWriteData(u, address, data) == uc_mem_write(u, address, data)

\* UnicornMemory.read_data
UcReadData(u, address, size) == uc_mem_read(u, address, size)

(************************ the memory interface ******************************)
\* MappableMemory.map of the memory of kind k
Map(k, ss, u, name, start, size, perms) ==
    IF k = "unicorn" THEN UcMap(ss, u, name, start, size, perms)
    ELSE LET m == BufMap(ss, name, start, size, perms)
         IN  [segs |-> m.segs, uc |-> u, err |-> m.err]

\* Memory.write of the memory of kind k
Write(k, ss, u, address, data) ==
    IF k = "unicorn"
    THEN LET w == UcWriteData(u, address, data)
         IN  [segs |-> ss, uc |-> w.uc, err |-> w.err]
    ELSE LET w == IF k = "buffer" THEN BufWriteData(ss, address, data)
                  ELSE SplitWrite(ss, address, data)
         IN  [segs |-> w.segs, uc |-> u, err |-> w.err]

\* Memory.read of the memory of kind k
Read(k, ss, u, address, size) ==
    IF k = "unicorn" THEN UcReadData(u, address, size)
    ELSE IF k = "buffer" THEN BufReadData(ss, address, size)
    ELSE SplitRead(ss, address, size)

(************************** MappableMemory **********************************)
\* MappableMemory.load: map, then write the data at the new segment's start
Load(k, ss, u, name, address, data, perms) ==
    LET m == Map(k, ss, u, name, address, Len(data), perms)
    IN  IF m.err # NoError THEN m
        ELSE Write(k, m.segs, m.uc, m.segs[Len(m.segs)].start, data)

\* Segment.read of a segment of the source memory mem
SegmentRead(mem, seg) == BufReadData(mem, seg.start, seg.size).ret

\* a load_memory that passes no perms to load, leaving the default RWX
RECURSIVE LoadMemoryFromDefaultPerms(_, _, _, _, _)
LoadMemoryFromDefaultPerms(k, ss, u, mem, i) ==
    IF i > Len(mem) THEN [segs |-> ss, uc |-> u, err |-> NoError]
    ELSE LET l == Load(k, ss, u, mem[i].name, mem[i].start,
                       SegmentRead(mem, mem[i]), RWX)
         IN  IF l.err # NoError THEN l
             ELSE LoadMemoryFromDefaultPerms(k, l.segs, l.uc, mem, i + 1)

\* MappableMemory.load_memory: the loop stops at the first load that raises
RECURSIVE LoadMemoryFrom(_, _, _, _, _)
LoadMemoryFrom(k, ss, u, mem, i) ==
    IF i > Len(mem) THEN [segs |-> ss, uc |-> u, err |-> NoError]
    ELSE LET l == Load(k, ss, u, mem[i].name, mem[i].start,
                       SegmentRead(mem, mem[i]), mem[i].perms)
         IN  IF l.err # NoError THEN l
             ELSE LoadMemoryFrom(k, l.segs, l.uc, mem, i + 1)

LoadMemory(k, ss, u, mem) == LoadMemoryFrom(k, ss, u, mem, 1)

\* an allocate that forgets round_up
AllocAddressNoRound(ss) ==
    MaxOf({End(ss[i]) : i \in 1..Len(ss)} \cup {MIN_ALLOC_ADDRESS})

\* an address picked from the segment added last alone
AllocAddressOfLast(ss) ==
    round_up(MaxOf({End(ss[i]) : i \in {Len(ss)} \ {0}}
                     \cup {MIN_ALLOC_ADDRESS}),
             ALLOC_ROUND_SIZE)

\* the address allocate picks
AllocAddress(ss) ==
    round_up(MaxOf({End(ss[i]) : i \in 1..Len(ss)} \cup {MIN_ALLOC_ADDRESS}),
             ALLOC_ROUND_SIZE)

\* MappableMemory.allocate
Allocate(k, ss, u, name, size, perms) ==
    Map(k, ss, u, name, AllocAddress(ss), size, perms)

(******************************* search *************************************)
\* bytes.find(value, search_start): the lowest 0-based index at or after
\* search_start where value occurs in data, -1 if there is none
Find(data, value, search_start) ==
    LET hits == {i \in search_start..(Len(data) - Len(value)) :
                    \A j \in 1..Len(value) : data[i + j] = value[j]}
    IN  IF hits = {} THEN -1
        ELSE CHOOSE i \in hits : \A i2 \in hits : i <= i2

\* a search loop that tests the alignment of the offset in the range
RECURSIVE SearchLoopOffsetAligned(_, _, _, _, _)
SearchLoopOffsetAligned(data, start, value, alignment, search_start) ==
    LET offset == Find(data, value, search_start)
    IN  IF offset = -1 THEN << >>
        ELSE IF offset % alignment = 0 THEN <<start + offset>>
        ELSE SearchLoopOffsetAligned(data, start, value, alignment,
                                     offset + 1)

\* the loop of Memory.search; << >> is None
RECURSIVE SearchLoop(_, _, _, _, _)
SearchLoop(data, start, value, alignment, search_start) ==
    LET offset == Find(data, value, search_start)
    IN  IF offset = -1 THEN << >>
        ELSE IF (start + offset) % alignment = 0 THEN <<start + offset>>
        ELSE SearchLoop(data, start, value, alignment, offset + 1)

\* Memory.search
Search(k, ss, u, start, size, value, alignment) ==
    LET r == Read(k, ss, u, start, size)
    IN  IF r.err # NoError THEN [err |-> r.err, ret |-> << >>]
        ELSE [err |-> NoError,
              ret |-> SearchLoop(r.ret, start, value, alignment, 0)]

\* Segment.search
SegmentSearch(k, ss, u, seg, value, alignment) ==
    Search(k, ss, u, seg.start, seg.size, value, alignment)

\* AccessType.contains
Contains(segperms, perms) == perms \subseteq segperms

\* a search_all that gives up after the first segment it searches
RECURSIVE SearchAllFirstOnly(_, _, _, _, _, _, _)
SearchAllFirstOnly(k, ss, u, value, alignment, perms, i) ==
    IF i > Len(ss) THEN [err |-> NoError, ret |-> << >>]
    ELSE IF ~Contains(ss[i].perms, perms)
    THEN SearchAllFirstOnly(k, ss, u, value, alignment, perms, i + 1)
    ELSE SegmentSearch(k, ss, u, ss[i], value, alignment)

\* the loop of SegmentMemory.search_all over segments.with_perms(perms)
RECURSIVE SearchAllFrom(_, _, _, _, _, _, _)
SearchAllFrom(k, ss, u, value, alignment, perms, i) ==
    IF i > Len(ss) THEN [err |-> NoError, ret |-> << >>]
    ELSE IF ~Contains(ss[i].perms, perms)
    THEN SearchAllFrom(k, ss, u, value, alignment, perms, i + 1)
    ELSE LET result == SegmentSearch(k, ss, u, ss[i], value, alignment)
         IN  IF result.err # NoError \/ result.ret # << >> THEN result
             ELSE SearchAllFrom(k, ss, u, value, alignment, perms, i + 1)

\* SegmentMemory.search_all
SearchAll(k, ss, u, value, alignment, perms) ==
    SearchAllFrom(k, ss, u, value, alignment, perms, 1)

(***************************** disassembly **********************************)
\* max_num=None
NoMaxNum == -1

\* The instruction sets: one with 4-byte instructions only, one with 2- and
\* 4-byte instructions.  The decoder is the backend's; here the first byte
\* of an encoding decides: 255 is no instruction, in the mixed set a first
\* byte of 128 or more starts a 4-byte instruction and any other a 2-byte
\* one.  Zero bytes decode, as they do on ARM.
ISA_FIXED ==
    [name |-> "fixed", min_insn_size |-> 4, max_insn_size |-> 4,
     insn_sizes |-> <<4>>]
ISA_MIXED ==
    [name |-> "mixed", min_insn_size |-> 2, max_insn_size |-> 4,
     insn_sizes |-> <<2, 4>>]

\* the size of the instruction encoded at index i of data, 0 if the bytes
\* there are no instruction or data ends inside it
InsnSize(isa, data, i) ==
    IF i > Len(data) THEN 0
    ELSE LET size == IF isa.min_insn_size = isa.max_insn_size
                     THEN isa.max_insn_size
                     ELSE IF data[i] >= 128 THEN isa.max_insn_size
                     ELSE isa.min_insn_size
         IN  IF data[i] = 255 \/ i + size - 1 > Len(data) THEN 0 ELSE size

\* InstructionSet.disassemble(data, address, count): instructions until
\* count is reached, data runs out or an invalid encoding is met.
\* IsaDisassembleFrom decodes at most n instructions from index i of data,
\* the first half of them and then the rest.
RECURSIVE IsaDisassembleFrom(_, _, _, _, _)
IsaDisassembleFrom(isa, data, address, i, n) ==
    IF n <= 0 THEN << >>
    ELSE IF n = 1
    THEN LET size == InsnSize(isa, data, i)
         IN  IF size = 0 THEN << >>
             ELSE <<[address |-> address + i - 1, size |-> size]>>
    ELSE LET half == n \div 2
             head == IsaDisassembleFrom(isa, data, address, i, half)
         IN  IF Len(head) < half THEN head
             ELSE LET end == head[half].address + head[half].size
                  IN  head \o IsaDisassembleFrom(isa, data, address,
                                  end - address + 1, n - half)

IsaDisassemble(isa, data, address, count) ==
    IsaDisassembleFrom(isa, data, address, 1,
                       IF count = NoMaxNum THEN Len(data) ELSE count)

\* total_size: the sum of the sizes of the instructions of insns
TotalSize(insns) ==
    Cardinality({<<i, j>> \in (1..Len(insns)) \X (1..4) :
                    j <= insns[i].size})

\* SegmentMemory._get_max_read_size; -1 is None
GetMaxReadSize(ss, address) ==
    LET i == GetSegmentByAddress(ss, address)
    IN  IF i = 0 THEN -1 ELSE End(ss[i]) - address

\* a read_size that is not clipped to the bytes remaining in the segment
ReadSizeUnclipped(max_size, max_num, isa, count, offset) ==
    IF max_num = NoMaxNum THEN DISASSEMBLY_CHUNK_SIZE
    ELSE Min((max_num - count) * isa.max_insn_size, DISASSEMBLY_CHUNK_SIZE)

\* read_size of one turn of the loop of Memory._disassemble_known_size:
\* size_remaining, clipped to the instructions still wanted and to the
\* chunk size
ReadSize(max_size, max_num, isa, count, offset) ==
    IF max_num = NoMaxNum
    THEN Min(max_size - offset, DISASSEMBLY_CHUNK_SIZE)
    ELSE Min(Min(max_size - offset, (max_num - count) * isa.max_insn_size),
             DISASSEMBLY_CHUNK_SIZE)

\* Memory._disassemble_known_size: count and offset are the loop variables,
\* insns the instructions yielded so far, reads the reads issued so far
RECURSIVE DisassembleKnownSize(_, _, _, _, _, _, _, _, _, _, _)

\* an end of a turn that advances by the bytes read, not by those decoded
KnownSizeYieldByChunk(k, ss, u, address, max_size, max_num, isa, count, offset, insns, allreads, read_size, got, total_size) ==
    IF \/ read_size = max_size - offset
       \/ read_size - total_size >= isa.max_insn_size
    THEN [err |-> NoError, insns |-> insns \o got, reads |-> allreads]
    ELSE DisassembleKnownSize(k, ss, u, address, max_size, max_num, isa,
             count + Len(got), offset + read_size, insns \o got, allreads)

\* the end of a turn of the loop: got are the instructions of the chunk and
\* total_size their sizes' sum; the loop ends at the end of the segment or
\* when the chunk held bytes that do not decode
KnownSizeYield(k, ss, u, address, max_size, max_num, isa, count, offset, insns, allreads, read_size, got, total_size) ==
    IF \/ read_size = max_size - offset
       \/ read_size - total_size >= isa.max_insn_size
    THEN [err |-> NoError, insns |-> insns \o got, reads |-> allreads]
    ELSE DisassembleKnownSize(k, ss, u, address, max_size, max_num, isa,
             count + Len(got), offset + total_size, insns \o got, allreads)

\* the middle of a turn: chunk is the result of the read, an error of which
\* leaves the call
KnownSizeDecode(k, ss, u, address, max_size, max_num, isa, count, offset, insns, allreads, read_size, chunk) ==
    IF chunk.err # NoError
    THEN [err |-> chunk.err, insns |-> insns, reads |-> allreads]
    ELSE LET got == IsaDisassemble(isa, chunk.ret, address + offset,
                        IF max_num = NoMaxNum THEN NoMaxNum
                        ELSE max_num - count)
         IN  KnownSizeYield(k, ss, u, address, max_size, max_num, isa,
                 count, offset, insns, allreads, read_size, got,
                 TotalSize(got))

DisassembleKnownSize(k, ss, u, address, max_size, max_num, isa, count, offset, insns, reads) ==
    IF ~ (/\ max_num = NoMaxNum \/ count < max_num
          /\ offset <= max_size - isa.min_insn_size)
    THEN [err |-> NoError, insns |-> insns, reads |-> reads]
    ELSE LET read_size == ReadSize(max_size, max_num, isa, count, offset)
         IN  KnownSizeDecode(k, ss, u, address, max_size, max_num, isa,
                 count, offset, insns,
                 Append(reads, [address |-> address + offset,
                                size |-> read_size]),
                 read_size, Read(k, ss, u, address + offset, read_size))

\* Memory._disassemble_one_unknown_size: the candidate sizes in descending
\* order (i runs down insn_sizes).  Only MemoryAccessError is caught; the
\* result is the instruction, "invalid" (DisassemblyError) or the error of
\* the read
RECURSIVE DisassembleOneUnknownSize(_, _, _, _, _, _, _)

\* one candidate size: data is the result of the read of size bytes
OneUnknownSizeDecode(k, ss, u, address, isa, i, allreads, size, data) ==
    IF data.err.type = "MemoryAccessError"
    THEN IF size = isa.min_insn_size
         THEN [err |-> data.err, insns |-> << >>, reads |-> allreads]
         ELSE DisassembleOneUnknownSize(k, ss, u, address, isa, i - 1,
                                        allreads)
    ELSE IF data.err # NoError
    THEN [err |-> data.err, insns |-> << >>, reads |-> allreads]
    ELSE LET got == IsaDisassemble(isa, data.ret, address, 1)
         IN  [err |-> IF got = << >>
                      THEN [NoError EXCEPT !.type = "DisassemblyError"]
                      ELSE NoError,
              insns |-> got, reads |-> allreads]

DisassembleOneUnknownSize(k, ss, u, address, isa, i, reads) ==
    OneUnknownSizeDecode(k, ss, u, address, isa, i,
        Append(reads, [address |-> address, size |-> isa.insn_sizes[i]]),
        isa.insn_sizes[i], Read(k, ss, u, address, isa.insn_sizes[i]))

\* Memory._disassemble_unknown_size: DisassemblyError and MemoryAccessError
\* end the loop, any other exception leaves the call
RECURSIVE DisassembleUnknownSize(_, _, _, _, _, _, _, _)

\* one turn of the loop: one is the result of _disassemble_one_unknown_size
UnknownSizeYield(k, ss, u, address, max_num, isa, insns, one) ==
    IF one.err.type \in {"DisassemblyError", "MemoryAccessError"}
    THEN [err |-> NoError, insns |-> insns, reads |-> one.reads]
    ELSE IF one.err # NoError
    THEN [err |-> one.err, insns |-> insns, reads |-> one.reads]
    ELSE DisassembleUnknownSize(k, ss, u, address + one.insns[1].size,
             max_num, isa, insns \o one.insns, one.reads)

DisassembleUnknownSize(k, ss, u, address, max_num, isa, insns, reads) ==
    IF max_num # NoMaxNum /\ Len(insns) >= max_num
    THEN [err |-> NoError, insns |-> insns, reads |-> reads]
    ELSE UnknownSizeYield(k, ss, u, address, max_num, isa, insns,
             DisassembleOneUnknownSize(k, ss, u, address, isa,
                                       Len(isa.insn_sizes), reads))

\* Memory.disassemble
Disassemble(k, ss, u, address, max_num, isa) ==
    LET max_size == GetMaxReadSize(ss, address)
    IN  IF max_size = -1
        THEN DisassembleUnknownSize(k, ss, u, address, max_num, isa,
                                    << >>, << >>)
        ELSE DisassembleKnownSize(k, ss, u, address, max_size, max_num, isa,
                                  0, 0, << >>, << >>)

\* DisassemblyError(f'Invalid instruction at 0x{last:X}')
DisassemblyError(address) ==
    [type |-> "DisassemblyError", cause |-> "Invalid instruction",
     atype |-> "", address |-> address, size |-> -1, value |-> {}]

\* the end of Memory.disassemble_n: r is the result of
\* list(self.disassemble(address, max_num=num, isa=isa)), whose exception
\* leaves the call; insns keeps what was decoded before a raise
DisassembleNCheck(address, num, r) ==
    IF r.err # NoError \/ Len(r.insns) = num THEN r
    ELSE [r EXCEPT !.err =
             DisassemblyError(
                 IF Len(r.insns) = 0 THEN address
                 ELSE r.insns[Len(r.insns)].address
                        + r.insns[Len(r.insns)].size)]

\* Memory.disassemble_n
DisassembleN(k, ss, u, address, num, isa) ==
    DisassembleNCheck(address, num, Disassemble(k, ss, u, address, num, isa))

(************************ the debugger and emulator *************************)
\* count=None and address=None of run
NoCount == -1
NoAddress == -1

\* Access(type, address, size, value); value is << >> for None
Access(type, address, size, value) ==
    [type |-> type, address |-> address, size |-> size, value |-> value]

\* StopReason(type, hook); hook 0 is None.  A run that raised has the
\* exception in the same record: its class in type, then its fields
StopReason(type, hook) ==
    [type |-> type, hook |-> hook, pc |-> -1, cause |-> "",
     access |-> << >>, message |-> ""]
MemFaultError(pc, cause, access) ==
    [StopReason("MemFaultError", 0) EXCEPT !.pc = pc, !.cause = cause,
                                           !.access = access]
InvalidInsnError(pc) == [StopReason("InvalidInsnError", 0) EXCEPT !.pc = pc]
CPUError(message, pc) ==
    [StopReason("CPUError", 0) EXCEPT !.pc = pc, !.message = message]

\* no access type for UC_MEM_READ_PROT; UC_MEM_WRITE_PROT is listed twice
\* and the later entry stands.  "" is a missing key (get(..., None))
UC_ACCESS_TO_ACCESS_TYPE(uc_access) ==
    CASE uc_access = "UC_MEM_READ" -> "READ"
      [] uc_access = "UC_MEM_READ_UNMAPPED" -> "READ"
      [] uc_access = "UC_MEM_WRITE" -> "WRITE"
      [] uc_access = "UC_MEM_WRITE_UNMAPPED" -> "WRITE"
      [] uc_access = "UC_MEM_WRITE_PROT" -> "WRITE"
      [] uc_access = "UC_MEM_FETCH" -> "EXECUTE"
      [] uc_access = "UC_MEM_FETCH_UNMAPPED" -> "EXECUTE"
      [] uc_access = "UC_MEM_FETCH_PROT" -> "EXECUTE"
      [] OTHER -> ""

UC_ACCESS_TO_FAULT_CAUSE(uc_access) ==
    CASE uc_access \in {"UC_MEM_READ_UNMAPPED", "UC_MEM_WRITE_UNMAPPED",
                        "UC_MEM_FETCH_UNMAPPED"} -> "UNMAPPED"
      [] uc_access \in {"UC_MEM_READ_PROT", "UC_MEM_WRITE_PROT",
                        "UC_MEM_FETCH_PROT"} -> "PROTECTED"
      [] OTHER -> ""

\* Architectures: ARCH_ARM64 of arches/arm64.py (64 bits, little-endian,
\* return address in lr) and, as their modules are not part of the sources
\* at hand, an x86 (32 bits, little-endian, return address on the stack) and
\* a MIPS (32 bits, big-endian, return address in ra).  word_size is the
\* number of bytes of a word, retaddr_reg "" is None.
ARCH_ARM64 ==
    [name |-> "arm64", word_size |-> 8, endian |-> "LITTLE",
     retaddr_reg |-> "lr"]
ARCH_X86 ==
    [name |-> "x86", word_size |-> 4, endian |-> "LITTLE",
     retaddr_reg |-> ""]
ARCH_MIPS ==
    [name |-> "mips", word_size |-> 4, endian |-> "BIG",
     retaddr_reg |-> "ra"]

\* retval=None of return_from_function
NoRetval == -1

\* no stack call yet: op, its argument and index, sp at its entry, what it
\* returned and raised, and of the call before it op, argument, sp at entry
\* and whether it returned
NoStackCall ==
    [op |-> "none", arg |-> -1, index |-> -1, sp0 |-> -1, ret |-> -1,
     err |-> NoError,
     prev |-> [op |-> "none", arg |-> -1, sp0 |-> -1, ok |-> FALSE]]

\* Debugger.__init__ and Emulator.__init__ over a guest whose code is prog.
\*   hooks        the Hook objects made so far; a hook is named by its
\*                index; data is the engine handle in hook._data, 0 for None
\*   uchooks      the engine's code-hook table: handle, begin, end, hook
\*   pos          "idle" outside run, "fetch", "deliver" inside emu_start,
\*                "callback" inside a hook function, "return" when
\*                emu_start has ended
\*   count, icount, stop_request, pending, errno, raised
\*                the engine's run: the count given to emu_start, the
\*                instructions executed, whether emu_stop was called, the
\*                handles still to call at pc, the error emu_start ends
\*                with, whether a hook function raised
\*   called, stoppers, events, removed, nruns, result, cleared
\*                history: the hooks entered and those that called stop in
\*                this run, the invalid-memory events of this run, the
\*                hooks given to remove_hook, the runs started, what the
\*                last run returned or raised, and the _stop_hook the last
\*                run found when it started
\*   faulted      history: the _fault_cause the last run found when it
\*                started
\*   arch, sp, retaddr, retval
\*                the architecture and the registers behind the aliases
\*                gen_sp, retaddr and retval (pc is gen_pc)
\*   call, nops   the last stack or return_from_function call and the
\*                number of such calls
NewEmulator(prog) ==
    [prog |-> prog, pc |-> 4096, hooks |-> << >>, uchooks |-> {},
     curr_hook |-> 0, curr_access |-> << >>, start_pc |-> -1,
     stop_hook |-> 0, trace_hook |-> 0,
     fault_cause |-> "", fault_access |-> << >>,
     pos |-> "idle", count |-> 0, icount |-> 0, stop_request |-> FALSE,
     pending |-> << >>, errno |-> "", raised |-> FALSE,
     called |-> << >>, stoppers |-> << >>, events |-> << >>,
     removed |-> {}, nruns |-> 0, run_count |-> NoCount,
     result |-> StopReason("none", 0), cleared |-> 0, faulted |-> "",
     arch |-> ARCH_ARM64, sp |-> 0, retaddr |-> 0, retval |-> 0,
     call |-> NoStackCall, nops |-> 0]

\* Hook(address, size, type, func)
Hook(address, type, func) ==
    [address |-> address, type |-> type, func |-> func, data |-> 0]

\* Uc.hook_add(UC_HOOK_CODE, ..., begin, end): a fresh handle
uc_hook_add(d, hook, begin, end) ==
    LET handle == Len(d.hooks) + 1
    IN  [handle |-> handle,
         uchooks |-> d.uchooks \cup {[handle |-> handle, begin |-> begin,
                                      end |-> end, hook |-> hook]}]

\* Uc.hook_del(handle)
uc_hook_del(d, handle) == {e \in d.uchooks : e.handle # handle}

\* Emulator._create_code_hook and Emulator._add_hook on the new hook, which
\* becomes hook number Len(d.hooks) + 1: a code hook goes to the engine, a
\* data hook gets no handle
AddHook(d, hook) ==
    LET id == Len(d.hooks) + 1
    IN  IF hook.type = "EXECUTE"
        THEN LET a == uc_hook_add(d, id, hook.address, hook.address)
             IN  [d EXCEPT !.hooks = Append(@, [hook EXCEPT
                                                  !.data = a.handle]),
                           !.uchooks = a.uchooks]
        ELSE [d EXCEPT !.hooks = Append(@, hook)]

\* a remove_hook that leaves the engine's table alone
RemoveHookKeepEngine(d, id) == [d EXCEPT !.removed = @ \cup {id}]

\* Emulator.remove_hook
RemoveHook(d, id) ==
    [d EXCEPT !.uchooks = uc_hook_del(d, d.hooks[id].data),
              !.removed = @ \cup {id}]

\* Emulator.trace: a hook over the range [1, 0], every address
Trace(d, func) ==
    LET id == Len(d.hooks) + 1
        a == uc_hook_add(d, id, 1, 0)
    IN  [d EXCEPT !.hooks = Append(@, [Hook(-1, "EXECUTE", func) EXCEPT
                                          !.data = a.handle]),
                  !.uchooks = a.uchooks,
                  !.trace_hook = id]

\* Emulator.stop_trace
StopTrace(d) ==
    [RemoveHook(d, d.trace_hook) EXCEPT !.trace_hook = 0]

\* a run that leaves the fault context as it finds it
RunStartKeepFault(d, count, address) ==
    [d EXCEPT !.stop_hook = 0, !.cleared = d.stop_hook, !.faulted = d.fault_cause,
              !.pc = IF address # NoAddress THEN address ELSE @,
              !.start_pc = IF address # NoAddress THEN address ELSE d.pc,
              !.pos = "fetch",
              !.count = IF count = NoCount THEN 0 ELSE count,
              !.icount = 0, !.stop_request = FALSE, !.pending = << >>,
              !.errno = "", !.raised = FALSE,
              !.called = << >>, !.stoppers = << >>, !.events = << >>,
              !.nruns = @ + 1, !.run_count = count,
              !.result = StopReason("none", 0)]

\* a run that leaves _stop_hook as it finds it
RunStartKeepStopHook(d, count, address) ==
    [d EXCEPT !.cleared = d.stop_hook, !.faulted = d.fault_cause,
              !.pc = IF address # NoAddress THEN address ELSE @,
              !.start_pc = IF address # NoAddress THEN address ELSE d.pc,
              !.fault_cause = "", !.fault_access = << >>,
              !.pos = "fetch",
              !.count = IF count = NoCount THEN 0 ELSE count,
              !.icount = 0, !.stop_request = FALSE, !.pending = << >>,
              !.errno = "", !.raised = FALSE,
              !.called = << >>, !.stoppers = << >>, !.events = << >>,
              !.nruns = @ + 1, !.run_count = count,
              !.result = StopReason("none", 0)]

\* Debugger.run up to the call of emu_start in Emulator._run: count None
\* becomes 0, which the engine takes as no limit
RunStart(d, count, address) ==
    [d EXCEPT !.stop_hook = 0, !.cleared = d.stop_hook, !.faulted = d.fault_cause,
              !.pc = IF address # NoAddress THEN address ELSE @,
              !.start_pc = IF address # NoAddress THEN address ELSE d.pc,
              !.fault_cause = "", !.fault_access = << >>,
              !.pos = "fetch",
              !.count = IF count = NoCount THEN 0 ELSE count,
              !.icount = 0, !.stop_request = FALSE, !.pending = << >>,
              !.errno = "", !.raised = FALSE,
              !.called = << >>, !.stoppers = << >>, !.events = << >>,
              !.nruns = @ + 1, !.run_count = count,
              !.result = StopReason("none", 0)]

\* the engine's test of an access of the given kind at address a: the code
\* of the invalid-memory event, "" if the access is allowed
UcProtBit(access) ==
    IF access = "READ" THEN PERM_TO_UC_PROT["R"]
    ELSE IF access = "WRITE" THEN PERM_TO_UC_PROT["W"]
    ELSE PERM_TO_UC_PROT["X"]
UcCheckAccess(u, access, a) ==
    IF ~UcMapped(u, a)
    THEN CASE access = "READ" -> "UC_MEM_READ_UNMAPPED"
           [] access = "WRITE" -> "UC_MEM_WRITE_UNMAPPED"
           [] OTHER -> "UC_MEM_FETCH_UNMAPPED"
    ELSE LET r == CHOOSE r \in u.regions :
                      r.start <= a /\ a < r.start + r.size
         IN  IF (r.prot \div UcProtBit(access)) % 2 = 1 THEN ""
             ELSE CASE access = "READ" -> "UC_MEM_READ_PROT"
                    [] access = "WRITE" -> "UC_MEM_WRITE_PROT"
                    [] OTHER -> "UC_MEM_FETCH_PROT"

\* the error emu_start ends with after an invalid-memory event
UcErrnoOf(uc_access) ==
    CASE uc_access = "UC_MEM_READ_UNMAPPED" -> "UC_ERR_READ_UNMAPPED"
      [] uc_access = "UC_MEM_WRITE_UNMAPPED" -> "UC_ERR_WRITE_UNMAPPED"
      [] uc_access = "UC_MEM_FETCH_UNMAPPED" -> "UC_ERR_FETCH_UNMAPPED"
      [] uc_access = "UC_MEM_READ_PROT" -> "UC_ERR_READ_PROT"
      [] uc_access = "UC_MEM_WRITE_PROT" -> "UC_ERR_WRITE_PROT"
      [] OTHER -> "UC_ERR_FETCH_PROT"

\* Emulator._mem_invalid_hook; it returns False each time, so the engine
\* gives up the access and emu_start ends with an error
MemInvalidHook(d, uc_access, address, size, value) ==
    LET cause == UC_ACCESS_TO_FAULT_CAUSE(uc_access)
        access_type == UC_ACCESS_TO_ACCESS_TYPE(uc_access)
    IN  IF cause # "" /\ access_type # ""
        THEN [d EXCEPT !.fault_cause = cause,
                       !.fault_access =
                           <<Access(access_type, address, size,
                                    IF access_type # "WRITE" THEN << >>
                                    ELSE value)>>]
        ELSE d

\* an error handler that never looks at the fault context
HandleUcErrorNoFault(d, errno) ==
    IF errno = "UC_ERR_INSN_INVALID" THEN InvalidInsnError(d.pc)
    ELSE CPUError(errno, d.pc)

\* Emulator._handle_uc_error: the exception raised in place of UcError(errno)
HandleUcError(d, errno) ==
    IF d.fault_cause # ""
    THEN MemFaultError(d.pc, d.fault_cause, d.fault_access)
    ELSE IF errno = "UC_ERR_INSN_INVALID" THEN InvalidInsnError(d.pc)
    ELSE CPUError(errno, d.pc)

\* Debugger.stop and Emulator.stop
Stop(d) ==
    [d EXCEPT !.stop_hook = d.curr_hook, !.stop_request = TRUE,
              !.stoppers = IF d.curr_hook # 0 THEN Append(@, d.curr_hook)
                           ELSE @]

\* Debugger._handle_hook up to the call of hook.func
HandleHookEnter(d, hook, access) ==
    [d EXCEPT !.curr_hook = hook, !.curr_access = access,
              !.called = Append(@, hook), !.pos = "callback"]

\* hook.func(self): HOOK_BREAK calls stop(); "raise" raises, and the engine
\* binding stops the engine and raises again when emu_start ends
CallHook(d) ==
    LET func == d.hooks[d.curr_hook].func
    IN  IF func = "HOOK_BREAK" THEN Stop(d)
        ELSE IF func = "raise"
        THEN [d EXCEPT !.raised = TRUE, !.stop_request = TRUE]
        ELSE d

\* a _handle_hook that clears only when hook.func returns
HandleHookLeaveNoFinally(d) ==
    LET c == CallHook(d)
    IN  IF c.raised THEN [c EXCEPT !.pos = "deliver"]
        ELSE [c EXCEPT !.curr_hook = 0, !.curr_access = << >>,
                       !.pos = "deliver"]

\* Debugger._handle_hook from the call of hook.func on: finally clears
HandleHookLeave(d) ==
    [CallHook(d) EXCEPT !.curr_hook = 0, !.curr_access = << >>,
                        !.pos = "deliver"]

\* a run that ignores stop and always reports COUNT
RunEndAlwaysCount(d) ==
    [d EXCEPT !.pos = "idle", !.result = StopReason("COUNT", 0)]

\* Emulator._run after emu_start and the end of Debugger.run: an exception
\* of a hook function leaves run as it is, an engine error is translated,
\* otherwise the StopReason is returned
RunEnd(d) ==
    [d EXCEPT !.pos = "idle",
              !.result =
                  IF d.raised THEN StopReason("HookException", 0)
                  ELSE IF d.errno # "" THEN HandleUcError(d, d.errno)
                  ELSE IF d.stop_hook # 0
                  THEN StopReason("HOOK", d.stop_hook)
                  ELSE StopReason("COUNT", 0)]

\* the guest instruction at pc: the program lies at 0x1000 in 4-byte
\* instructions, any other bytes are no instruction
Insn(d, pc) ==
    LET i == (pc - 4096) \div 4 + 1
    IN  IF pc >= 4096 /\ pc % 4 = 0 /\ i <= Len(d.prog) THEN d.prog[i]
        ELSE [op |-> "udf", addr |-> 0]

\* the handles the engine calls before the instruction at pc, in the order
\* they were added (begin > end is every address)
RECURSIVE HandlesAt(_, _, _)
HandlesAt(d, pc, handle) ==
    IF handle > Len(d.hooks) THEN << >>
    ELSE (IF \E e \in d.uchooks :
                 /\ e.handle = handle
                 /\ (e.begin > e.end \/ (e.begin <= pc /\ pc <= e.end))
          THEN <<handle>> ELSE << >>) \o HandlesAt(d, pc, handle + 1)

(************************* words and the stack ******************************)
\* Endian.encode_int(value, size): the size bytes of value, lowest first for
\* LITTLE, highest first for BIG
RECURSIVE EncodeLittle(_, _)
EncodeLittle(value, size) ==
    IF size = 0 THEN << >>
    ELSE <<value % 256>> \o EncodeLittle(value \div 256, size - 1)

Reverse(s) == [i \in 1..Len(s) |-> s[Len(s) + 1 - i]]

encode_int(endian, value, size) ==
    IF endian = "LITTLE" THEN EncodeLittle(value, size)
    ELSE Reverse(EncodeLittle(value, size))

\* Endian.decode_int(data), unsigned
RECURSIVE DecodeLittle(_)
DecodeLittle(data) ==
    IF data = << >> THEN 0
    ELSE Head(data) + 256 * DecodeLittle(Tail(data))

decode_int(endian, data) ==
    IF endian = "LITTLE" THEN DecodeLittle(data)
    ELSE DecodeLittle(Reverse(data))

\* Memory.read_word / read_int on the emulator's memory
ReadWord(d, u, address) ==
    LET r == UcReadData(u, address, d.arch.word_size)
    IN  [err |-> r.err,
         ret |-> IF r.err = NoError THEN decode_int(d.arch.endian, r.ret)
                 ELSE -1]

\* Memory.write_word / write_int on the emulator's memory
WriteWord(d, u, address, value) ==
    UcWriteData(u, address,
                encode_int(d.arch.endian, value, d.arch.word_size))

\* StackView.get_address
StackGetAddress(d, index) == d.sp + index * d.arch.word_size

\* StackView.__getitem__ with an integer key
StackGetItem(d, u, key) == ReadWord(d, u, StackGetAddress(d, key))

\* StackView.__setitem__
StackSetItem(d, u, key, value) ==
    WriteWord(d, u, StackGetAddress(d, key), value)

\* a push that stores the value before it moves sp
PushStoreFirst(d, u, value) ==
    LET w == StackSetItem(d, u, 0, value)
    IN  [dbg |-> [d EXCEPT !.sp = @ - d.arch.word_size],
         uc |-> w.uc, err |-> w.err, ret |-> -1]

\* StackView.push: sp is moved first, so it stays moved when the store
\* raises
Push(d, u, value) ==
    LET moved == [d EXCEPT !.sp = @ - d.arch.word_size]
        w == StackSetItem(moved, u, 0, value)
    IN  [dbg |-> moved, uc |-> w.uc, err |-> w.err, ret |-> -1]

\* StackView.pop: the read comes first, so sp stays when it raises
Pop(d, u) ==
    LET r == StackGetItem(d, u, 0)
    IN  IF r.err # NoError
        THEN [dbg |-> d, uc |-> u, err |-> r.err, ret |-> -1]
        ELSE [dbg |-> [d EXCEPT !.sp = @ + d.arch.word_size],
              uc |-> u, err |-> NoError, ret |-> r.ret]

\* a return_from_function that always takes the return address from the
\* stack
ReturnFromFunctionPopOnly(d, u, retval) ==
    LET d1 == IF retval # NoRetval THEN [d EXCEPT !.retval = retval] ELSE d
        p == Pop(d1, u)
    IN  IF p.err # NoError THEN p
        ELSE [p EXCEPT !.dbg = [p.dbg EXCEPT !.pc = p.ret], !.ret = -1]

\* Debugger.return_from_function
ReturnFromFunction(d, u, retval) ==
    LET d1 == IF retval # NoRetval THEN [d EXCEPT !.retval = retval] ELSE d
        p == Pop(d1, u)
    IN  IF d.arch.retaddr_reg # ""
        THEN [dbg |-> [d1 EXCEPT !.pc = d1.retaddr], uc |-> u,
              err |-> NoError, ret |-> -1]
        ELSE IF p.err # NoError THEN p
        ELSE [p EXCEPT !.dbg = [p.dbg EXCEPT !.pc = p.ret], !.ret = -1]

\* the bookkeeping of a stack call op(arg) or op[index] with result r
StackCall(d, op, arg, index, r) ==
    [r.dbg EXCEPT !.call = [op |-> op, arg |-> arg, index |-> index,
                            sp0 |-> d.sp, ret |-> r.ret, err |-> r.err,
                            prev |-> [op |-> d.call.op, arg |-> d.call.arg,
                                      sp0 |-> d.call.sp0,
                                      ok |-> d.call.err = NoError]],
                  !.nops = @ + 1]

(***************************** the registry *********************************)
\* A name is a sequence of letters.  str.lower on a letter and on a name.
LowerChar(c) ==
    CASE c = "A" -> "a"
      [] c = "B" -> "b"
      [] OTHER -> c

Lower(name) == [i \in 1..Len(name) |-> LowerChar(name[i])]

\* NotFoundError(f'Unknown {cls.__name__} "{name}"')
NotFoundError(name) ==
    [type |-> "NotFoundError", cause |-> "Unknown", name |-> name]

NoDbError == [type |-> "none", cause |-> "", name |-> << >>]

\* DatabaseEntry.__init__: name and alt_names are kept as given
DatabaseEntry(name, alt_names) == [name |-> name, alt_names |-> alt_names]

\* DatabaseEntry.__init_subclass__: a catalog with no instance; op, arg, ret
\* and err are the last call, its argument, the index of the instance it
\* returned (0 for none) and the exception it raised
NewDatabase ==
    [instances |-> << >>, op |-> "init", arg |-> DatabaseEntry(<< >>, << >>),
     query |-> << >>, ret |-> 0, err |-> NoDbError]

\* DatabaseEntry.register
Register(d, instance) ==
    [d EXCEPT !.instances = Append(@, instance), !.op = "register",
              !.arg = instance, !.ret = 0, !.err = NoDbError]

\* DatabaseEntry.by_name: the first instance, in registration order, whose
\* name or one of whose alt_names equals name.lower()
ByName(d, name) ==
    LET lname == Lower(name)
        hits == {i \in 1..Len(d.instances) :
                    \/ d.instances[i].name = lname
                    \/ \E j \in 1..Len(d.instances[i].alt_names) :
                          d.instances[i].alt_names[j] = lname}
    IN  IF hits = {}
        THEN [d EXCEPT !.op = "by_name", !.query = name, !.ret = 0,
                       !.err = NotFoundError(lname)]
        ELSE [d EXCEPT !.op = "by_name", !.query = name,
                       !.ret = CHOOSE i \in hits : \A h \in hits : i <= h,
                       !.err = NoDbError]

(****************************** inputs **************************************)
\* map and load name their segment "a"; "b" and "c" come from allocate and
\* from the source memories of load_memory
MapNames == {"a"}
AllocNames == {"b", "c"}
Perms == {R, RWX}
\* 0 lies below MIN_ALLOC_ADDRESS; 4097 is not page-aligned
Starts == {0, 4096, 4097}
Sizes == {0, 1, 4096}
LoadStarts == {0, 4096}
LoadPerms == {RX}
\* 0x100 is the size of the documented allocate scenario
AllocSizes == {0, 256, 4096}
AllocPerms == {RWX}

Ramp(n, base) == [i \in 1..n |-> base + i - 1]
Zeros(n) == [i \in 1..n |-> 0]

\* byte vectors for load: 16 17 18 ...
LoadVecs == {Ramp(n, 16) : n \in 0..MaxLen}
\* byte vectors for write: 32 33 34 ... and 0 0 0 ...
WriteVecs == {Ramp(n, 32) : n \in 0..MaxLen} \cup {Zeros(n) : n \in 1..MaxLen}

\* a segment of a source memory holding the given bytes at its start
SourceSegment(name, start, size, perms, bytes) ==
    SetSlice(BufferSegment(name, start, size, perms), 0, bytes)

\* the source memories given to load_memory
Sources ==
    << << >>,
       <<SourceSegment("a", 4096, 2, RX, <<1, 2>>),
         SourceSegment("b", 4098, 1, R, <<3>>)>>,
       <<SourceSegment("a", 4096, 4096, RX, <<1, 2>>),
         SourceSegment("b", 8192, 4096, R, <<3>>)>>,
       <<SourceSegment("b", 4096, 1, RWX, <<7>>)>>,
       <<SourceSegment("a", 0, 0, R, << >>),
         SourceSegment("b", 0, 4096, R, <<0, 9>>)>> >>

\* segments loaded before reads and writes in SpecIO: name, start, bytes, perms
Setups ==
    { <<"a", 4096, <<1, 2>>, RWX>>, <<"a", 4096, <<1>>, RWX>>,
      <<"b", 4098, <<3, 4>>, R>>, <<"b", 8192, <<3, 4>>, R>>,
      <<"b", 4098, <<3, 4>>, X>>, <<"b", 8192, <<3, 4>>, X>>,
      <<"b", 12288, <<3>>, R>> }

\* addresses read and written in SpecIO; nothing is ever mapped at 0xDEAD
IOAddrs == {4095, 4096, 4097, 4098, 8191, 57005}

\* segments loaded before searches: name, start, bytes, perms.  "b" lies
\* right after "a": at 4100 in a buffer memory, at 8192 in the emulator's,
\* where "a" takes a page; "c" is empty
SearchSetups ==
    { <<"a", 4096, <<1, 2, 1, 2>>, RX>>, <<"b", 4100, <<2, 1>>, R>>,
      <<"b", 8192, <<2, 1>>, R>>, <<"c", 0, << >>, R>> }
Needles ==
    {<< >>, <<2>>, <<1, 2>>, <<2, 1>>, <<2, 2>>, <<0, 2>>, <<9>>}
Alignments == {1, 2, 4}
SearchStarts == {4096, 4097, 8190}
SearchSizes == {0, 2, 4, 6}
SearchPerms == {NONE, X}

\* code that crosses a read chunk: 4-byte encodings up to offset 1020,
\* 2-byte ones at 1024 and 1026, no instruction at 1028
LongCode ==
    [i \in 1..1030 |-> IF i = 1029 THEN 255
                       ELSE IF i % 4 = 1 /\ i < 1024 THEN 240 ELSE 0]

\* code that is, in the mixed instruction set, one 2-byte instruction and
\* then 4-byte ones, the 257th instruction lying across the end of the
\* first chunk
CutCode == [i \in 1..1030 |-> IF i % 4 = 3 THEN 240 ELSE 0]

\* segments loaded before disassembly: name, start, bytes, perms.  "b" lies
\* right after the four bytes of "a" in a buffer memory
DisasmSetups ==
    { <<"a", 4096, <<0, 0, 0, 0>>, RX>>,
      <<"a", 4096, <<0, 0, 240, 0, 0, 0, 255, 0>>, RX>>,
      <<"b", 4100, <<0, 0, 0, 0, 0, 0>>, RX>>,
      <<"c", 8192, LongCode, RX>>,
      <<"d", 12288, CutCode, RX>> }
DisasmAddrs == {4096, 4098, 4100, 8192, 9214, 12288, 57005}

\* the guest of SpecDbg: code at 0x1000, read-only data at 0x2000,
\* write-only data at 0x3000, read-write data at 0x4000
GuestMemory ==
    LET m1 == UcMap(<< >>, NoEngine, "code", 4096, 4096, RX)
        m2 == UcMap(m1.segs, m1.uc, "ro", 8192, 4096, R)
        m3 == UcMap(m2.segs, m2.uc, "wo", 12288, 4096, W)
    IN  UcMap(m3.segs, m3.uc, "rw", 16384, 4096, {"R", "W"})
I(op, addr) == [op |-> op, addr |-> addr]
\* guest programs: two nops, then bytes that are no instruction; accesses
\* that fault for each kind of access and each cause; a trap
Programs ==
    { <<I("nop", 0), I("nop", 0)>>,
      <<I("nop", 0), I("ldr", 57005)>>,
      <<I("ldr", 8192), I("ldr", 12288)>>,
      <<I("str", 16384), I("str", 8192)>>,
      <<I("str", 57005)>>,
      <<I("b", 8192)>>,
      <<I("nop", 0), I("b", 57004)>>,
      <<I("brk", 0)>> }
\* the hooks added: type, address, function
HookSpecs ==
    { <<"EXECUTE", 4100, "HOOK_BREAK">>, <<"EXECUTE", 4096, "raise">>,
      <<"READ", 8192, "HOOK_BREAK">>, <<"WRITE", 16384, "nop">> }
TraceFuncs == {"nop"}
Counts == {NoCount, 0, 2}
RunAddrs == {NoAddress, 4096}
\* 0x1008 lies past every guest program, in the page of the code
FaultRunAddrs == {NoAddress, 4096, 4104}

MaxNums == {NoMaxNum, 0, 1, 2, 300}
Nums == {0, 1, 2, 300}
ISAs == {ISA_FIXED, ISA_MIXED}

\* names given to the registry and asked of it
DbNames ==
    {<<"a">>, <<"A">>, <<"b">>, <<"a", "b">>, <<"A", "B">>, <<"a", "B">>}
DbAltNames == {<< >>} \cup {<<n>> : n \in DbNames}

\* architectures, stack pointers (inside the read-write segment, at its
\* start so that a push leaves it, in no segment), words and indexes
Arches == {ARCH_ARM64, ARCH_X86, ARCH_MIPS}
StackTops == {16400, 16384, 57005}
Words == {7, 258}
Indexes == {0, 1}
Retvals == {NoRetval, 0, 5}

(******************************* state **************************************)
\* last: the latest call, its arguments (those it has; the others keep the
\* defaults below), the exception it raised (NoError if none), the bytes a
\* read returned, and whether it changed the memory.
NoCall ==
    [op |-> "init", name |-> "", address |-> -1, size |-> -1, perms |-> NONE,
     data |-> << >>, src |-> 0, alignment |-> 1, max_num |-> NoMaxNum,
     isa |-> ISA_FIXED, insns |-> << >>, reads |-> << >>, err |-> NoError,
     ret |-> << >>, changed |-> TRUE]

Init ==
    /\ kind \in Kinds
    /\ segs = << >>
    /\ uc = NoEngine
    /\ last = NoCall
    /\ nwrites = 0
    /\ dbg = NewEmulator(<< >>)
    /\ db = NewDatabase

\* A call that left the memory as it was (a read, a rejected map, a failed
\* write) is recorded in last and explored no further: the memory is the one
\* it was called on, and the next call overwrites last, so each continuation
\* from there is a continuation of the state it was called on.
Open == last.changed

\* the effect of a call with result res (segs, uc, err) on the state
Effect(call, res) ==
    /\ Open
    /\ segs' = res.segs
    /\ uc' = res.uc
    /\ last' = [call EXCEPT !.err = res.err,
                            !.changed = (res.segs # segs \/ res.uc # uc)]
    /\ UNCHANGED <<kind, dbg, db>>

(****************************** actions *************************************)
DoMap ==
    \E name \in MapNames, start \in Starts, size \in Sizes,
       perms \in Perms :
        /\ Effect([NoCall EXCEPT !.op = "map", !.name = name,
                                 !.address = start, !.size = size,
                                 !.perms = perms],
                  Map(kind, segs, uc, name, start, size, perms))
        /\ UNCHANGED nwrites

DoLoad ==
    \E name \in MapNames, start \in LoadStarts, data \in LoadVecs,
       perms \in LoadPerms :
        /\ Effect([NoCall EXCEPT !.op = "load", !.name = name,
                                 !.address = start, !.size = Len(data),
                                 !.data = data, !.perms = perms],
                  Load(kind, segs, uc, name, start, data, perms))
        /\ UNCHANGED nwrites

DoLoadMemory ==
    \E src \in 1..Len(Sources) :
        /\ Effect([NoCall EXCEPT !.op = "load_memory", !.src = src],
                  LoadMemory(kind, segs, uc, Sources[src]))
        /\ UNCHANGED nwrites

DoAllocate ==
    \E name \in AllocNames, size \in AllocSizes, perms \in AllocPerms :
        /\ Effect([NoCall EXCEPT !.op = "allocate", !.name = name,
                                 !.size = size, !.perms = perms],
                  Allocate(kind, segs, uc, name, size, perms))
        /\ UNCHANGED nwrites

DoSetup ==
    \E s \in Setups :
        /\ Effect([NoCall EXCEPT !.op = "load", !.name = s[1],
                                 !.address = s[2], !.size = Len(s[3]),
                                 !.data = s[3], !.perms = s[4]],
                  Load(kind, segs, uc, s[1], s[2], s[3], s[4]))
        /\ UNCHANGED nwrites

DoWrite ==
    \E address \in IOAddrs, data \in WriteVecs :
        /\ nwrites < MaxWrites
        /\ Effect([NoCall EXCEPT !.op = "write", !.address = address,
                                 !.size = Len(data), !.data = data],
                  Write(kind, segs, uc, address, data))
        /\ nwrites' = nwrites + 1

DoRead ==
    \E address \in IOAddrs, size \in 0..MaxLen :
        LET r == Read(kind, segs, uc, address, size)
        IN  /\ Effect([NoCall EXCEPT !.op = "read", !.address = address,
                                     !.size = size, !.ret = r.ret],
                      [segs |-> segs, uc |-> uc, err |-> r.err])
            /\ UNCHANGED nwrites

DoSearchSetup ==
    \E s \in SearchSetups :
        /\ Effect([NoCall EXCEPT !.op = "load", !.name = s[1],
                                 !.address = s[2], !.size = Len(s[3]),
                                 !.data = s[3], !.perms = s[4]],
                  Load(kind, segs, uc, s[1], s[2], s[3], s[4]))
        /\ UNCHANGED nwrites

DoSearch ==
    \E start \in SearchStarts, size \in SearchSizes, value \in Needles,
       alignment \in Alignments :
        LET r == Search(kind, segs, uc, start, size, value, alignment)
        IN  /\ Effect([NoCall EXCEPT !.op = "search", !.address = start,
                                     !.size = size, !.data = value,
                                     !.alignment = alignment,
                                     !.ret = r.ret],
                      [segs |-> segs, uc |-> uc, err |-> r.err])
            /\ UNCHANGED nwrites

DoSearchAll ==
    \E value \in Needles, alignment \in Alignments, perms \in SearchPerms :
        LET r == SearchAll(kind, segs, uc, value, alignment, perms)
        IN  /\ Effect([NoCall EXCEPT !.op = "search_all", !.data = value,
                                     !.alignment = alignment,
                                     !.perms = perms, !.ret = r.ret],
                      [segs |-> segs, uc |-> uc, err |-> r.err])
            /\ UNCHANGED nwrites

DoDisasmSetup ==
    \E s \in DisasmSetups :
        /\ Effect([NoCall EXCEPT !.op = "load", !.name = s[1],
                                 !.address = s[2], !.size = Len(s[3]),
                                 !.perms = s[4]],
                  Load(kind, segs, uc, s[1], s[2], s[3], s[4]))
        /\ UNCHANGED nwrites

DoDisassemble ==
    \E address \in DisasmAddrs, max_num \in MaxNums, isa \in ISAs :
        LET r == Disassemble(kind, segs, uc, address, max_num, isa)
        IN  /\ Effect([NoCall EXCEPT !.op = "disassemble",
                                     !.address = address,
                                     !.max_num = max_num, !.isa = isa,
                                     !.insns = r.insns, !.reads = r.reads],
                      [segs |-> segs, uc |-> uc, err |-> r.err])
            /\ UNCHANGED nwrites

DoDisassembleN ==
    \E address \in DisasmAddrs, num \in Nums, isa \in ISAs :
        LET r == DisassembleN(kind, segs, uc, address, num, isa)
        IN  /\ Effect([NoCall EXCEPT !.op = "disassemble_n",
                                     !.address = address,
                                     !.max_num = num, !.isa = isa,
                                     !.insns = r.insns, !.reads = r.reads],
                      [segs |-> segs, uc |-> uc, err |-> r.err])
            /\ UNCHANGED nwrites

\* an emulator over the guest memory, one of the programs in its code
InitDbg ==
    /\ kind = "unicorn"
    /\ segs = GuestMemory.segs
    /\ uc = GuestMemory.uc
    /\ last = NoCall
    /\ nwrites = 0
    /\ dbg \in {NewEmulator(prog) : prog \in Programs}
    /\ db = NewDatabase

DbgAddHook ==
    \E s \in HookSpecs :
        /\ dbg.pos = "idle"
        /\ Len(dbg.hooks) < MaxHooks
        /\ dbg' = AddHook(dbg, Hook(s[2], s[1], s[3]))
        /\ UNCHANGED <<kind, segs, uc, last, nwrites, db>>

\* remove_hook(hook) of a hook not removed before
DbgRemoveHook ==
    \E id \in 1..Len(dbg.hooks) :
        /\ dbg.pos = "idle"
        /\ id \notin dbg.removed
        /\ dbg' = RemoveHook(dbg, id)
        /\ UNCHANGED <<kind, segs, uc, last, nwrites, db>>

DbgTrace ==
    \E func \in TraceFuncs :
        /\ dbg.pos = "idle"
        /\ Len(dbg.hooks) < MaxHooks
        /\ dbg' = Trace(dbg, func)
        /\ UNCHANGED <<kind, segs, uc, last, nwrites, db>>

DbgStopTrace ==
    /\ dbg.pos = "idle"
    /\ dbg.trace_hook # 0
    /\ dbg' = StopTrace(dbg)
    /\ UNCHANGED <<kind, segs, uc, last, nwrites, db>>

\* stop() called between runs, outside every hook function
DbgStop ==
    /\ dbg.pos = "idle"
    /\ dbg' = Stop(dbg)
    /\ UNCHANGED <<kind, segs, uc, last, nwrites, db>>

DbgRun ==
    \E count \in Counts, address \in RunAddrs :
        /\ dbg.pos = "idle"
        /\ dbg.nruns < MaxRuns
        /\ dbg' = RunStart(dbg, count, address)
        /\ UNCHANGED <<kind, segs, uc, last, nwrites, db>>

\* run(count, address=...) with start addresses past the program too
DbgRunAt ==
    \E count \in Counts, address \in FaultRunAddrs :
        /\ dbg.pos = "idle"
        /\ dbg.nruns < MaxRuns
        /\ dbg' = RunStart(dbg, count, address)
        /\ UNCHANGED <<kind, segs, uc, last, nwrites, db>>

\* the engine at the start of an instruction: it ends the run when asked to
\* stop or when count instructions are done, reports a fetch it may not
\* make to the fault hook and gives up, or lines up the code hooks of pc
EngineFetch ==
    /\ dbg.pos = "fetch"
    /\ LET event == UcCheckAccess(uc, "EXECUTE", dbg.pc)
       IN  dbg' =
             IF dbg.stop_request
                \/ (dbg.count > 0 /\ dbg.icount >= dbg.count)
             THEN [dbg EXCEPT !.pos = "return"]
             ELSE IF event # ""
             THEN [MemInvalidHook(dbg, event, dbg.pc, 4, << >>) EXCEPT
                      !.events = Append(@, [uc_access |-> event,
                                            address |-> dbg.pc, size |-> 4,
                                            value |-> << >>]),
                      !.errno = UcErrnoOf(event), !.pos = "return"]
             ELSE [dbg EXCEPT !.pending = HandlesAt(dbg, dbg.pc, 1),
                              !.pos = "deliver"]
    /\ UNCHANGED <<kind, segs, uc, last, nwrites, db>>

\* the engine calls the next code hook of pc: Emulator._handle_code_hook
EngineDeliver ==
    /\ dbg.pos = "deliver"
    /\ dbg.pending # << >>
    /\ LET e == CHOOSE e \in dbg.uchooks : e.handle = Head(dbg.pending)
       IN  dbg' = HandleHookEnter([dbg EXCEPT !.pending = Tail(@)],
                                  e.hook, << >>)
    /\ UNCHANGED <<kind, segs, uc, last, nwrites, db>>

\* the hook function runs and _handle_hook ends
HookReturn ==
    /\ dbg.pos = "callback"
    /\ dbg' = HandleHookLeave(dbg)
    /\ UNCHANGED <<kind, segs, uc, last, nwrites, db>>

\* the engine, asked to stop, calls no further hook and ends the run before
\* the instruction at pc (it may also call the other hooks of pc first)
EngineHalt ==
    /\ dbg.pos = "deliver"
    /\ dbg.stop_request
    /\ dbg' = [dbg EXCEPT !.pending = << >>, !.pos = "return"]
    /\ UNCHANGED <<kind, segs, uc, last, nwrites, db>>

\* the engine executes the instruction at pc
EngineExec ==
    /\ dbg.pos = "deliver"
    /\ dbg.pending = << >>
    /\ ~dbg.stop_request
    /\ dbg.icount < MaxSteps
    /\ LET insn == Insn(dbg, dbg.pc)
           access == IF insn.op = "ldr" THEN "READ" ELSE "WRITE"
           value == IF insn.op = "str" THEN <<7>> ELSE << >>
           event == IF insn.op \in {"ldr", "str"}
                    THEN UcCheckAccess(uc, access, insn.addr) ELSE ""
           done == [dbg EXCEPT !.icount = @ + 1, !.pos = "fetch",
                               !.pc = IF insn.op = "b" THEN insn.addr
                                      ELSE @ + 4]
       IN  /\ dbg' =
                IF insn.op = "udf"
                THEN [dbg EXCEPT !.errno = "UC_ERR_INSN_INVALID",
                                 !.pos = "return"]
                ELSE IF insn.op = "brk"
                THEN [dbg EXCEPT !.errno = "UC_ERR_EXCEPTION",
                                 !.pos = "return"]
                ELSE IF event # ""
                THEN [MemInvalidHook(dbg, event, insn.addr, 4, value) EXCEPT
                         !.events = Append(@, [uc_access |-> event,
                                               address |-> insn.addr,
                                               size |-> 4,
                                               value |-> value]),
                         !.errno = UcErrnoOf(event), !.pos = "return"]
                ELSE done
           /\ uc' = IF insn.op = "str" /\ event = ""
                    THEN uc_mem_write(uc, insn.addr, value).uc ELSE uc
    /\ UNCHANGED <<kind, segs, last, nwrites, db>>

\* emu_start has ended: the rest of Emulator._run and of Debugger.run
RunReturn ==
    /\ dbg.pos = "return"
    /\ dbg' = RunEnd(dbg)
    /\ UNCHANGED <<kind, segs, uc, last, nwrites, db>>

\* an emulator of some architecture over the guest memory, sp somewhere and
\* 0x1004 in the return-address register
InitStack ==
    /\ kind = "unicorn"
    /\ segs = GuestMemory.segs
    /\ uc = GuestMemory.uc
    /\ last = NoCall
    /\ nwrites = 0
    /\ dbg \in {[NewEmulator(<< >>) EXCEPT !.arch = a, !.sp = s,
                                         !.retaddr = 4100] :
                   a \in Arches, s \in StackTops}
    /\ db = NewDatabase

\* the effect of a stack call with result r on the state
StackEffect(op, arg, index, r) ==
    /\ dbg.nops < MaxStackOps
    /\ dbg' = StackCall(dbg, op, arg, index, r)
    /\ uc' = r.uc
    /\ UNCHANGED <<kind, segs, last, nwrites, db>>

DbgStackGet ==
    \E index \in Indexes :
        LET r == StackGetItem(dbg, uc, index)
        IN  StackEffect("getitem", -1, index,
                        [dbg |-> dbg, uc |-> uc, err |-> r.err,
                         ret |-> r.ret])

DbgStackSet ==
    \E index \in Indexes, value \in Words :
        LET w == StackSetItem(dbg, uc, index, value)
        IN  StackEffect("setitem", value, index,
                        [dbg |-> dbg, uc |-> w.uc, err |-> w.err,
                         ret |-> -1])

DbgPush == \E value \in Words : StackEffect("push", value, -1, Push(dbg, uc, value))

DbgPop == StackEffect("pop", -1, -1, Pop(dbg, uc))

DbgReturnFromFunction ==
    \E retval \in Retvals :
        StackEffect("return_from_function", retval, -1,
                    ReturnFromFunction(dbg, uc, retval))

DbRegister ==
    \E name \in DbNames, alt_names \in DbAltNames :
        /\ Len(db.instances) < MaxEntries
        /\ db' = Register(db, DatabaseEntry(name, alt_names))
        /\ UNCHANGED <<kind, segs, uc, last, nwrites, dbg>>

DbByName ==
    \E name \in DbNames :
        /\ db' = ByName(db, name)
        /\ UNCHANGED <<kind, segs, uc, last, nwrites, dbg>>

\* segment management: map, load, load_memory, allocate
Next == DoMap \/ DoLoad \/ DoLoadMemory \/ DoAllocate

Spec == Init /\ [][Next]_vars

\* reads and writes over segments loaded first
NextIO == DoSetup \/ DoWrite \/ DoRead

SpecIO == Init /\ [][NextIO]_vars

\* searches over segments loaded first
NextSearch == DoSearchSetup \/ DoSearch \/ DoSearchAll

SpecSearch == Init /\ [][NextSearch]_vars

\* disassembly over segments loaded first
NextDisasm == DoDisasmSetup \/ DoDisassemble \/ DoDisassembleN

SpecDisasm == Init /\ [][NextDisasm]_vars

\* the emulator: hooks, runs and the engine's steps inside a run
NextDbg ==
    \/ DbgAddHook \/ DbgRemoveHook \/ DbgTrace \/ DbgStopTrace \/ DbgRun
    \/ DbgStop
    \/ EngineFetch \/ EngineDeliver \/ HookReturn \/ EngineHalt
    \/ EngineExec \/ RunReturn

SpecDbg == InitDbg /\ [][NextDbg]_vars

\* runs without hooks, from the program's start, from where the last run
\* ended and from past the program
NextFault == DbgRunAt \/ EngineFetch \/ EngineExec \/ RunReturn

SpecFault == InitDbg /\ [][NextFault]_vars

\* the registry: register and by_name
NextDb == DbRegister \/ DbByName

SpecDb == Init /\ [][NextDb]_vars

\* the stack view and return_from_function
NextStack ==
    \/ DbgStackGet \/ DbgStackSet \/ DbgPush \/ DbgPop
    \/ DbgReturnFromFunction

SpecStack == InitStack /\ [][NextStack]_vars

(****************************** claims **************************************)
\* some address lies in both ranges [start, start+size)
RangesMeet(s, t) == Max(s.start, t.start) < Min(End(s), End(t))

\* some address of [address, address+size) lies in no segment of ss
Gap(ss, address, size) ==
    \E a \in address..(address + size - 1) :
        \A i \in 1..Len(ss) : ~(ss[i].start <= a /\ a < End(ss[i]))

\* some byte of some buffer or of the engine is not 0
SomeContent ==
    \/ \E i \in 1..Len(segs) : DOMAIN segs[i].data # {}
    \/ DOMAIN uc.mem # {}

\* C1: after any sequence of map, load, load_memory and allocate calls,
\* successful or not, the segment names are pairwise distinct and no two
\* segments' ranges [start, start+size) share an address.
C1_NamesUniqueNoOverlap ==
    \A i, j \in 1..Len(segs) :
        i # j => /\ segs[i].name # segs[j].name
                 /\ ~RangesMeet(segs[i], segs[j])

\* three segments are mapped and the latest call, a map, was rejected
C1_Witness ==
    /\ Len(segs) = 3
    /\ last.op = "map"
    /\ last.err.type = "MegastoneError"

\* C2: after a write(addr, b) that returned, read(addr, len(b)) returns b.
C2_WriteThenRead ==
    (last.op = "write" /\ last.err = NoError)
        => Read(kind, segs, uc, last.address, Len(last.data))
             = [err |-> NoError, ret |-> last.data]

\* a write of several bytes that begins in one buffer segment and ends in
\* another has returned
C2_Witness ==
    /\ last.op = "write"
    /\ last.err = NoError
    /\ kind = "buffer"
    /\ Len(last.data) >= 2
    /\ \E d \in 1..(Len(last.data) - 1) :
          /\ last.data[d] # last.data[d + 1]
          /\ GetSegmentByAddress(segs, last.address + d - 1)
               # GetSegmentByAddress(segs, last.address + d)

\* C3: a write whose range contains an address covered by no segment fails
\* and leaves every byte of every segment (and of the engine) unchanged.
C3_FailedWriteChangesNothing ==
    [][(last'.op = "write" /\ Gap(segs, last'.address, last'.size))
          => (last'.err # NoError /\ segs' = segs /\ uc' = uc)]_vars

\* a write failed on a gap in the middle of its range (the first and the
\* last address are mapped), in a memory holding non-zero bytes
C3_Witness ==
    /\ last.op = "write"
    /\ last.err # NoError
    /\ last.size >= 3
    /\ ~Gap(segs, last.address, 1)
    /\ ~Gap(segs, last.address + last.size - 1, 1)
    /\ Gap(segs, last.address, last.size)
    /\ \E i \in 1..Len(segs) :
          ContainsAddress(segs[i], last.address) /\ DOMAIN segs[i].data # {}

\* C4: a read or write of size > 0 whose range reaches an address with no
\* segment fails with MemoryAccessError, cause 'unmapped', whose access
\* record carries the type (R for a read, W for a write), the start address
\* and the size of the request.
C4_UnmappedAccessRecord ==
    (last.op \in {"read", "write"} /\ last.size > 0
     /\ Gap(segs, last.address, last.size))
        => /\ last.err.type = "MemoryAccessError"
           /\ last.err.cause = "unmapped"
           /\ last.err.atype = (IF last.op = "read" THEN "R" ELSE "W")
           /\ last.err.address = last.address
           /\ last.err.size = last.size

\* the same statement for the memory that reads and writes through
\* SplittingSegmentMemory alone
C4_SplittingAccessRecord == (kind = "splitting") => C4_UnmappedAccessRecord

\* the addresses where one non-empty segment ends and another one starts
Boundaries(ss) ==
    {ss[j].start : j \in {k \in 1..Len(ss) :
        /\ ss[k].size > 0
        /\ \E i \in 1..Len(ss) : ss[i].size > 0 /\ End(ss[i]) = ss[k].start}}

\* the boundaries strictly inside [address, address+size)
Straddled(ss, address, size) ==
    {b \in Boundaries(ss) : address < b /\ b < address + size}

\* C5: for adjacent segments, a read or write that straddles their boundary
\* gives the same result as the two reads or writes of the pieces on either
\* side of the boundary: it succeeds exactly if both pieces do, a read
\* returns the two pieces' bytes joined, a write leaves the memory the two
\* writes leave.
C5_StraddleEqualsPieces ==
    [][/\ last'.op = "read" =>
            \A b \in Straddled(segs, last'.address, last'.size) :
                LET r1 == Read(kind, segs, uc, last'.address,
                               b - last'.address)
                    r2 == Read(kind, segs, uc, b,
                               last'.address + last'.size - b)
                IN  /\ (last'.err = NoError)
                         <=> (r1.err = NoError /\ r2.err = NoError)
                    /\ (last'.err = NoError)
                         => (last'.ret = r1.ret \o r2.ret)
       /\ last'.op = "write" =>
            \A b \in Straddled(segs, last'.address, last'.size) :
                LET w1 == Write(kind, segs, uc, last'.address,
                                Slice(last'.data, 0, b - last'.address))
                    w2 == Write(kind, w1.segs, w1.uc, b,
                                Slice(last'.data, b - last'.address,
                                      last'.size))
                IN  /\ (last'.err = NoError)
                         <=> (w1.err = NoError /\ w2.err = NoError)
                    /\ (last'.err = NoError)
                         => (segs' = w2.segs /\ uc' = w2.uc)
      ]_vars

\* a write through SplittingSegmentMemory over the boundary of two adjacent
\* segments has returned, with different bytes on the two sides
C5_Witness ==
    /\ last.op = "write"
    /\ last.err = NoError
    /\ kind = "splitting"
    /\ \E b \in Straddled(segs, last.address, last.size) :
          last.data[b - last.address] # last.data[b - last.address + 1]

NameUsed(ss, name) == \E i \in 1..Len(ss) : ss[i].name = name

\* some address of [start, start+size) lies in a segment of ss
RequestMeets(ss, start, size) ==
    \E i \in 1..Len(ss) :
        Max(start, ss[i].start) < Min(start + size, End(ss[i]))

\* C6: map(name, start, size, perms) fails with MegastoneError when the name
\* is already used by a segment or [start, start+size) overlaps an existing
\* segment, and a map rejected with MegastoneError leaves the segment set
\* and all memory contents unchanged.
C6_RejectedMapChangesNothing ==
    [][last'.op = "map" =>
          /\ (NameUsed(segs, last'.name)
              \/ RequestMeets(segs, last'.address, last'.size))
                => last'.err.type = "MegastoneError"
          /\ (last'.err.type = "MegastoneError")
                => (segs' = segs /\ uc' = uc)
      ]_vars

\* a map under a fresh name was rejected for overlapping a segment, in a
\* memory holding non-zero bytes
C6_Witness ==
    /\ last.op = "map"
    /\ last.err = MegastoneError("Segment overlap")
    /\ ~NameUsed(segs, last.name)
    /\ RequestMeets(segs, last.address, last.size)
    /\ SomeContent

C8_FailedLoadLeavesNoSegment ==
    [][(last'.op = "load" /\ last'.err # NoError) => segs' = segs]_vars

\* the destination has a segment for the source segment s: same name,
\* start, perms and bytes, and the given size
Copied(s, size) ==
    /\ \E j \in 1..Len(segs) :
          /\ segs[j].name = s.name
          /\ segs[j].start = s.start
          /\ segs[j].size = size
          /\ segs[j].perms = s.perms
    /\ Read(kind, segs, uc, s.start, s.size)
         = [err |-> NoError, ret |-> GetSlice(s, 0, s.size)]

\* the least multiple of PAGE_SIZE that is >= n
PageCeil(n) ==
    CHOOSE m \in {PAGE_SIZE * k : k \in 0..2} : m >= n /\ m - n < PAGE_SIZE

ExpectedAllocStart(ss) ==
    LET fits(m) == /\ m >= MIN_ALLOC_ADDRESS
                   /\ \A i \in 1..Len(ss) : m >= End(ss[i])
        cands == {ALLOC_ROUND_SIZE * k : k \in 0..8}
    IN  CHOOSE m \in cands :
            fits(m) /\ \A m2 \in cands : fits(m2) => m <= m2

\* C10: a successful allocate(name, size, perms) maps the new segment at
\* max(MIN_ALLOC_ADDRESS, max of seg.end over the existing segments) rounded
\* up to a multiple of ALLOC_ROUND_SIZE, whatever holes lie below; in an
\* empty memory that is 0x1000, and 0x2000 when the only segment is one
\* allocated there with a size of at most a page.
C10_AllocatePlacement ==
    [][(last'.op = "allocate" /\ last'.err = NoError) =>
          LET new == segs'[Len(segs')]
          IN  /\ Len(segs') = Len(segs) + 1
              /\ new.name = last'.name
              /\ new.start = ExpectedAllocStart(segs)
              /\ (segs = << >>) => new.start = 4096
              /\ (Len(segs) = 1 /\ segs[1].start = 4096
                  /\ segs[1].size > 0 /\ segs[1].size <= 4096)
                    => new.start = 8192
      ]_vars

\* allocate placed a third, non-empty segment above the others although a
\* free range of its size lies right after the end of a lower segment
C10_Witness ==
    /\ last.op = "allocate"
    /\ last.err = NoError
    /\ last.size > 0
    /\ Len(segs) = 3
    /\ \E i \in 1..2 :
          /\ End(segs[i]) + last.size <= segs[3].start
          /\ ~RequestMeets(segs, End(segs[i]), last.size)

\* C17: on the emulator-backed memory map(name, start, size, perms) fails
\* with MegastoneError when start is not a multiple of PAGE_SIZE and adds no
\* segment; otherwise size is rounded up to the next page multiple, and the
\* rounded size is the one of the overlap check, the one stored in the new
\* segment and the one mapped in the engine.
C17_EmulatorMapAlignsAndRounds ==
    [][(last'.op = "map" /\ kind = "unicorn") =>
          LET start == last'.address
              rsize == PageCeil(last'.size)
              n == Len(segs')
          IN  /\ (start % PAGE_SIZE # 0)
                    => /\ last'.err.type = "MegastoneError"
                       /\ segs' = segs /\ uc' = uc
              /\ (start % PAGE_SIZE = 0 /\ RequestMeets(segs, start, rsize))
                    => /\ last'.err = MegastoneError("Segment overlap")
                          \/ NameUsed(segs, last'.name)
                       /\ segs' = segs /\ uc' = uc
              /\ (start % PAGE_SIZE = 0 /\ rsize > 0
                  /\ ~NameUsed(segs, last'.name)
                  /\ ~RequestMeets(segs, start, rsize))
                    => last'.err = NoError
              /\ (last'.err = NoError)
                    => /\ n = Len(segs) + 1
                       /\ segs'[n].start = start
                       /\ segs'[n].size = rsize
                       /\ uc'.regions = uc.regions \cup
                            {[start |-> start, size |-> rsize,
                              prot |-> perms_to_uc_prot(last'.perms)]}
      ]_vars

\* an emulator-backed map of one byte at an aligned start returned, next to
\* a segment mapped before it
C17_Witness ==
    /\ last.op = "map"
    /\ kind = "unicorn"
    /\ last.err = NoError
    /\ last.size = 1
    /\ Len(segs) >= 2
    /\ segs[Len(segs)].size = PAGE_SIZE

\* value occurs at address a, inside segment seg
OccursIn(seg, a, value) ==
    /\ seg.start <= a
    /\ a + Len(value) <= End(seg)
    /\ Read(kind, segs, uc, a, Len(value)) = [err |-> NoError, ret |-> value]

\* C18: search_all(b) over all segments returns an address a with
\* read(a, len(b)) = b, and returns none if and only if b occurs inside no
\* single segment (at a multiple of the alignment, 1 unless given).
C18_SearchAllFindsOccurrence ==
    (last.op = "search_all" /\ last.perms = NONE /\ last.err = NoError) =>
        /\ (last.ret # << >>) =>
              /\ Read(kind, segs, uc, last.ret[1], Len(last.data))
                   = [err |-> NoError, ret |-> last.data]
              /\ last.ret[1] % last.alignment = 0
        /\ (last.ret = << >>) <=>
              ~ \E i \in 1..Len(segs) :
                    \E a \in segs[i].start..End(segs[i]) :
                        /\ a % last.alignment = 0
                        /\ OccursIn(segs[i], a, last.data)

\* search_all returned none for a non-empty needle that can be read across
\* the boundary of two adjacent segments
C18_Witness ==
    /\ last.op = "search_all"
    /\ last.perms = NONE
    /\ last.err = NoError
    /\ last.ret = << >>
    /\ last.data # << >>
    /\ Len(segs) >= 2
    /\ \E i \in 1..Len(segs) :
          Read(kind, segs, uc, End(segs[i]) - 1, Len(last.data))
             = [err |-> NoError, ret |-> last.data]

\* the aligned addresses of [start, start+size-len(needle)] holding needle
AlignedHits(start, size, value, alignment) ==
    {a \in start..(start + size - Len(value)) :
        /\ a % alignment = 0
        /\ Read(kind, segs, uc, a, Len(value))
             = [err |-> NoError, ret |-> value]}

\* C19: a search(start, size, needle, alignment) that returns gives the
\* lowest address a of [start, start+size-len(needle)] that is a multiple of
\* alignment (of the address, not of the offset) and holds needle, and none
\* when there is no such address.
C19_SearchLowestAligned ==
    (last.op = "search" /\ last.err = NoError) =>
        LET hits == AlignedHits(last.address, last.size, last.data,
                                last.alignment)
        IN  IF hits = {} THEN last.ret = << >>
            ELSE /\ last.ret # << >>
                 /\ last.ret[1] \in hits
                 /\ \A a \in hits : last.ret[1] <= a

\* a search from an odd start returned an address above an occurrence it
\* skipped for being unaligned
C19_Witness ==
    /\ last.op = "search"
    /\ last.err = NoError
    /\ last.ret # << >>
    /\ last.data # << >>
    /\ last.address % 2 = 1
    /\ \E a \in last.address..(last.ret[1] - 1) :
          /\ a % last.alignment # 0
          /\ Read(kind, segs, uc, a, Len(last.data))
               = [err |-> NoError, ret |-> last.data]

\* C20: for a disassemble call starting inside a segment, every read of the
\* call lies between the start address and the end of that segment, the
\* sizes of the emitted instructions sum to at most the bytes from the start
\* address to the segment end and, when max_num is given, to at most
\* max_num * max_insn_size; a 4-byte segment holding one valid 4-byte
\* instruction yields exactly one instruction.
C20_DisassembleStaysInSegment ==
    (last.op = "disassemble"
     /\ GetSegmentByAddress(segs, last.address) # 0) =>
        LET seg == segs[GetSegmentByAddress(segs, last.address)]
        IN  /\ last.err = NoError
            /\ \A i \in 1..Len(last.reads) :
                  /\ last.address <= last.reads[i].address
                  /\ last.reads[i].address + last.reads[i].size <= End(seg)
            /\ TotalSize(last.insns) <= End(seg) - last.address
            /\ (last.max_num # NoMaxNum) =>
                  /\ Len(last.insns) <= last.max_num
                  /\ TotalSize(last.insns)
                       <= last.max_num * last.isa.max_insn_size
            /\ (seg.size = 4 /\ last.address = seg.start
                /\ last.isa = ISA_FIXED /\ last.max_num \notin {0}
                /\ InsnSize(ISA_FIXED,
                            Read(kind, segs, uc, seg.start, 4).ret, 1) = 4)
                  => Len(last.insns) = 1

\* an unlimited disassemble of a 4-byte segment that is followed at once by
\* another segment emitted one instruction after a read ending at the
\* segment end
C20_Witness ==
    /\ last.op = "disassemble"
    /\ last.max_num = NoMaxNum
    /\ GetSegmentByAddress(segs, last.address) # 0
    /\ LET seg == segs[GetSegmentByAddress(segs, last.address)]
       IN  /\ seg.size = 4
           /\ GetSegmentByAddress(segs, End(seg)) # 0
           /\ Len(last.insns) = 1
           /\ Len(last.reads) = 1
           /\ last.reads[1].address + last.reads[1].size = End(seg)

\* the run has ended and was not left by an exception of a hook function
RunOver == dbg.pos = "idle" /\ dbg.nruns > 0 /\ ~dbg.raised

\* a code hook of the engine's table that covers pc and calls stop()
BreakAt(pc) ==
    \E e \in dbg.uchooks :
        /\ e.begin > e.end \/ (e.begin <= pc /\ pc <= e.end)
        /\ dbg.hooks[e.hook].func = "HOOK_BREAK"

\* C11: when a code hook's function calls stop() during a run, the run
\* returns StopReason(HOOK, h), h the hook whose function called stop();
\* the engine, told to halt, executes nothing more, so a run that meets a
\* breakpoint on its path returns with pc at the breakpoint and never
\* executes the instruction there.
C11_StopInHookStopsRun ==
    [][/\ (dbg.pos = "return" /\ dbg'.pos = "idle"
           /\ dbg.stoppers # << >> /\ ~dbg.raised)
             => /\ dbg'.result
                     = StopReason("HOOK", dbg.stoppers[Len(dbg.stoppers)])
                /\ dbg'.pc = dbg.pc
                /\ dbg.hooks[dbg'.result.hook].address \in {-1, dbg'.pc}
       /\ (dbg.stop_request /\ dbg.pos # "idle" /\ dbg'.pos # "fetch")
             => (dbg'.icount = dbg.icount /\ dbg'.pc = dbg.pc)
       /\ (dbg'.icount > dbg.icount) => ~BreakAt(dbg.pc)
      ]_vars

\* run() over two nops with a breakpoint at the second returned
\* StopReason(HOOK, bp) with pc at the second nop
C11_Witness ==
    /\ RunOver
    /\ dbg.run_count = NoCount
    /\ dbg.start_pc = 4096
    /\ dbg.prog = <<I("nop", 0), I("nop", 0)>>
    /\ dbg.result.type = "HOOK"
    /\ dbg.hooks[dbg.result.hook] =
          [Hook(4100, "EXECUTE", "HOOK_BREAK") EXCEPT
              !.data = dbg.result.hook]
    /\ dbg.pc = 4100
    /\ dbg.icount = 1

\* C12: run(count=0) returns StopReason(COUNT) without executing any guest
\* instruction: pc is where the run started.
C12_RunCountZeroExecutesNothing ==
    (RunOver /\ dbg.run_count = 0) =>
        /\ dbg.result = StopReason("COUNT", 0)
        /\ dbg.icount = 0
        /\ dbg.pc = dbg.start_pc

\* C13: curr_hook and curr_access are non-null only while a hook function
\* is running, where curr_hook is the hook the engine called; they are null
\* again on every way out of the function, a raise included, between hook
\* events and outside run.
C13_CurrHookOnlyInCallback ==
    /\ (dbg.curr_hook # 0 \/ dbg.curr_access # << >>)
          => dbg.pos = "callback"
    /\ (dbg.pos = "callback")
          => /\ dbg.called # << >>
             /\ dbg.curr_hook = dbg.called[Len(dbg.called)]
             /\ dbg.curr_hook \in 1..Len(dbg.hooks)

\* a run was left by the exception of a hook function and curr_hook is
\* null again
C13_Witness ==
    /\ dbg.pos = "idle"
    /\ dbg.raised
    /\ dbg.result.type = "HookException"
    /\ dbg.called # << >>
    /\ dbg.hooks[dbg.called[Len(dbg.called)]].func = "raise"
    /\ dbg.curr_hook = 0
    /\ dbg.curr_access = << >>

\* the engine table the hooks not given to remove_hook account for
LiveTable ==
    {[handle |-> dbg.hooks[id].data,
      begin |-> IF dbg.hooks[id].address = -1 THEN 1
                ELSE dbg.hooks[id].address,
      end |-> IF dbg.hooks[id].address = -1 THEN 0
              ELSE dbg.hooks[id].address,
      hook |-> id] :
        id \in {i \in 1..Len(dbg.hooks) :
                   i \notin dbg.removed /\ dbg.hooks[i].type = "EXECUTE"}}

\* C14: a hook of any kind (code, read, write) that was added and then
\* removed has no effect on later runs: no later run calls its function,
\* and the engine's hook table, the only thing of a hook a run reads, is the
\* one of the hooks that were not removed.
C14_RemovedHookHasNoEffect ==
    /\ dbg.uchooks = LiveTable
    /\ (dbg.pos # "idle") =>
          /\ \A i \in 1..Len(dbg.called) : dbg.called[i] \notin dbg.removed
          /\ dbg.stop_hook \notin dbg.removed
    /\ dbg.curr_hook \notin dbg.removed

\* with a breakpoint at the second nop and a read hook both added and
\* removed, a run went past the second nop to the end of the code
C14_Witness ==
    /\ RunOver
    /\ dbg.removed = {1, 2}
    /\ \E i \in {1, 2} :
          /\ dbg.hooks[i].type = "EXECUTE"
          /\ dbg.hooks[i].address = 4100
          /\ dbg.hooks[i].func = "HOOK_BREAK"
          /\ dbg.hooks[3 - i].type = "READ"
    /\ dbg.start_pc = 4096
    /\ dbg.pc = 4104
    /\ dbg.called = << >>
    /\ dbg.result.type = "InvalidInsnError"

\* C15: an engine error that ends a run is raised as MemFaultError(pc,
\* cause, access) if a fault context was stored during the run, else as
\* InvalidInsnError(pc) if it is the engine's invalid-instruction error,
\* else as CPUError(message, pc); the engine's own error is never raised.
C15_EngineErrorClassified ==
    (RunOver /\ dbg.errno # "") =>
        /\ dbg.fault_cause # "" => dbg.events # << >>
        /\ dbg.result =
             IF dbg.fault_cause # ""
             THEN [StopReason("MemFaultError", 0) EXCEPT
                      !.pc = dbg.pc, !.cause = dbg.fault_cause,
                      !.access = dbg.fault_access]
             ELSE IF dbg.errno = "UC_ERR_INSN_INVALID"
             THEN [StopReason("InvalidInsnError", 0) EXCEPT !.pc = dbg.pc]
             ELSE [StopReason("CPUError", 0) EXCEPT
                      !.pc = dbg.pc, !.message = dbg.errno]

\* a store to read-only memory ended a run with MemFaultError(pc,
\* PROTECTED, a WRITE access with its value)
C15_Witness ==
    /\ RunOver
    /\ dbg.errno = "UC_ERR_WRITE_PROT"
    /\ dbg.result.type = "MemFaultError"
    /\ dbg.result.cause = "PROTECTED"
    /\ dbg.result.access = <<Access("WRITE", 8192, 4, <<7>>)>>
    /\ dbg.result.pc = 4100

\* C16: after every invalid-memory event of the engine (read, write or
\* fetch; unmapped or protection) the stored fault context has the cause
\* and the access type of the event, its address and size, and a value only
\* for a write.
C16_FaultContextMatchesEvent ==
    (dbg.events # << >>) =>
        LET e == dbg.events[Len(dbg.events)]
            cause == IF e.uc_access \in {"UC_MEM_READ_UNMAPPED",
                         "UC_MEM_WRITE_UNMAPPED", "UC_MEM_FETCH_UNMAPPED"}
                     THEN "UNMAPPED" ELSE "PROTECTED"
            type == IF e.uc_access \in {"UC_MEM_READ_UNMAPPED",
                                        "UC_MEM_READ_PROT"} THEN "READ"
                    ELSE IF e.uc_access \in {"UC_MEM_WRITE_UNMAPPED",
                                             "UC_MEM_WRITE_PROT"}
                    THEN "WRITE" ELSE "EXECUTE"
        IN  /\ dbg.fault_cause = cause
            /\ dbg.fault_access =
                 <<Access(type, e.address, e.size,
                          IF type = "WRITE" THEN e.value ELSE << >>)>>

\* C21: disassemble_n(address, n) returns exactly n instructions or raises
\* DisassemblyError; when fewer than n decode the error names the start
\* address if nothing decoded and else the address just past the last
\* decoded instruction.
C21_DisassembleNExactOrError ==
    (last.op = "disassemble_n") =>
        IF last.err = NoError THEN Len(last.insns) = last.max_num
        ELSE /\ Len(last.insns) < last.max_num
             /\ last.err =
                  DisassemblyError(
                      IF last.insns = << >> THEN last.address
                      ELSE last.insns[Len(last.insns)].address
                             + last.insns[Len(last.insns)].size)

\* C21 where reads of unmapped memory raise MemoryAccessError
C21_SplittingExactOrError ==
    (kind = "splitting") => C21_DisassembleNExactOrError

\* the names of an instance of the registry
NamesOf(instance) ==
    {instance.name}
      \cup {instance.alt_names[j] : j \in 1..Len(instance.alt_names)}

\* C22: registering an entry whose canonical name or one of whose alternate
\* names is a name already registered in the catalog is rejected with an
\* error and leaves the catalog as it was.
C22_DuplicateRegistrationRejected ==
    [][(db'.op = "register" /\ db' # db
        /\ \E i \in 1..Len(db.instances) :
              NamesOf(db.instances[i]) \cap NamesOf(db'.arg) # {})
         => (db'.err # NoDbError /\ db'.instances = db.instances)]_vars

\* C23: by_name(name) is case-insensitive over canonical and alternate
\* names: when some registered instance has a name that equals the asked
\* name up to the case of its letters, by_name returns an instance with such
\* a name; when none has, it raises NotFoundError.
C23_ByNameCaseInsensitive ==
    (db.op = "by_name") =>
        LET match(i) == \E n \in NamesOf(db.instances[i]) :
                            Lower(n) = Lower(db.query)
        IN  IF \E i \in 1..Len(db.instances) : match(i)
            THEN db.err = NoDbError /\ db.ret # 0 /\ match(db.ret)
            ELSE db.err.type = "NotFoundError" /\ db.ret = 0

\* the byte of the engine's memory at address a
ByteAt(u, a) == IF a \in DOMAIN u.mem THEN u.mem[a] ELSE 0

\* the word of architecture arch at address a, read off the bytes one by
\* one; k counts the bytes from the least significant, and model words fit
\* in three bytes
WordAt(u, arch, a) ==
    LET b(k) == ByteAt(u, IF arch.endian = "LITTLE" THEN a + k
                          ELSE a + arch.word_size - 1 - k)
    IN  IF \E k \in 3..(arch.word_size - 1) : b(k) # 0 THEN -2
        ELSE b(0) + 256 * b(1) + 65536 * b(2)

\* C24: return_from_function(retval) writes a given retval to the
\* return-value register; on an architecture with a return-address register
\* it then sets pc to that register and leaves sp and the stack alone; on
\* one without it pops the return address: pc becomes the word at sp and sp
\* grows by one word.
C24_ReturnFromFunction ==
    [][(dbg'.nops = dbg.nops + 1
        /\ dbg'.call.op = "return_from_function") =>
          /\ dbg'.retval = IF dbg'.call.arg # NoRetval THEN dbg'.call.arg
                           ELSE dbg.retval
          /\ (dbg.arch.retaddr_reg # "") =>
                /\ dbg'.call.err = NoError
                /\ dbg'.pc = dbg.retaddr
                /\ dbg'.sp = dbg.sp
                /\ uc' = uc
          /\ (dbg.arch.retaddr_reg = "" /\ dbg'.call.err = NoError) =>
                /\ dbg'.pc = WordAt(uc, dbg.arch, dbg.sp)
                /\ dbg'.sp = dbg.sp + dbg.arch.word_size
                /\ uc' = uc
          /\ dbg'.retaddr = dbg.retaddr
      ]_vars

\* on x86 return_from_function(5) after push(258) set the return value to 5
\* and pc to 258 and took the word off the stack
C24_Witness ==
    /\ dbg.call.op = "return_from_function"
    /\ dbg.call.err = NoError
    /\ dbg.arch = ARCH_X86
    /\ dbg.call.arg = 5
    /\ dbg.retval = 5
    /\ dbg.call.prev.op = "push" /\ dbg.call.prev.ok
    /\ dbg.call.prev.arg = 258
    /\ dbg.pc = 258
    /\ dbg.sp = dbg.call.prev.sp0

\* C25: stack[i] is the word at sp + i * word_size; push(v) lowers sp by one
\* word and stores v at the new sp, changing no other byte; pop() returns
\* the word at sp and raises sp by one word; so pop() right after push(v)
\* returns v and leaves sp where it was before the push.
C25_StackView ==
    [][(dbg'.nops = dbg.nops + 1 /\ dbg'.call.err = NoError) =>
          LET c == dbg'.call
              ws == dbg.arch.word_size
          IN  /\ (c.op = "getitem") =>
                    /\ c.ret = WordAt(uc, dbg.arch, dbg.sp + c.index * ws)
                    /\ dbg'.sp = dbg.sp /\ uc' = uc
              /\ (c.op = "push") =>
                    /\ dbg'.sp = dbg.sp - ws
                    /\ WordAt(uc', dbg.arch, dbg'.sp) = c.arg
                    /\ \A a \in DOMAIN uc.mem \cup DOMAIN uc'.mem :
                          (a < dbg'.sp \/ a >= dbg.sp)
                             => ByteAt(uc', a) = ByteAt(uc, a)
              /\ (c.op = "pop") =>
                    /\ c.ret = WordAt(uc, dbg.arch, dbg.sp)
                    /\ dbg'.sp = dbg.sp + ws /\ uc' = uc
              /\ (c.op = "pop" /\ c.prev.op = "push" /\ c.prev.ok) =>
                    /\ c.ret = c.prev.arg
                    /\ dbg'.sp = c.prev.sp0
      ]_vars

\* on the big-endian architecture pop() after push(258) returned 258 with sp
\* back where it was
C25_Witness ==
    /\ dbg.call.op = "pop"
    /\ dbg.call.err = NoError
    /\ dbg.arch = ARCH_MIPS
    /\ dbg.call.prev.op = "push" /\ dbg.call.prev.ok
    /\ dbg.call.prev.arg = 258
    /\ dbg.call.ret = 258
    /\ dbg.sp = dbg.call.prev.sp0

\* the instructions of insns that start below address a
EmittedBelow(insns, a) ==
    Cardinality({i \in 1..Len(insns) : insns[i].address < a})

\* C26: a disassemble that starts inside a segment reads chunks of at most
\* DISASSEMBLY_CHUNK_SIZE bytes, none longer than what is left of the
\* segment nor than max_insn_size times the instructions still wanted; each
\* chunk starts where the decoded instructions end, beyond the chunk before
\* it, so the loop terminates; the instructions emitted are, in address
\* order, exactly those a single decoding of the rest of the segment gives,
\* up to max_num of them, up to the segment end or up to the first invalid
\* encoding, an instruction cut by the end of a chunk being read again.
C26_KnownSizeChunks ==
    (last.op = "disassemble" /\ last.err = NoError
     /\ GetSegmentByAddress(segs, last.address) # 0) =>
        LET seg == segs[GetSegmentByAddress(segs, last.address)]
            rest == Read(kind, segs, uc, last.address,
                         End(seg) - last.address).ret
            n == Len(last.reads)
        IN  /\ last.insns
                 = IsaDisassemble(last.isa, rest, last.address, last.max_num)
            /\ (last.max_num # NoMaxNum) => Len(last.insns) <= last.max_num
            /\ \A i \in 1..n :
                  /\ last.reads[i].size <= DISASSEMBLY_CHUNK_SIZE
                  /\ last.reads[i].size <= End(seg) - last.reads[i].address
                  /\ (last.max_num # NoMaxNum) =>
                        last.reads[i].size
                          <= (last.max_num
                                - EmittedBelow(last.insns,
                                               last.reads[i].address))
                             * last.isa.max_insn_size
                  /\ last.reads[i].address =
                        IF i = 1 THEN last.address
                        ELSE LET m == EmittedBelow(last.insns,
                                                   last.reads[i].address)
                             IN  last.insns[m].address + last.insns[m].size
                  /\ (i > 1) =>
                        last.reads[i].address > last.reads[i - 1].address
            /\ \A j \in 1..Len(last.insns) :
                  \E i \in 1..n :
                      /\ last.reads[i].address <= last.insns[j].address
                      /\ last.insns[j].address + last.insns[j].size
                           <= last.reads[i].address + last.reads[i].size

\* an unlimited disassemble in the mixed instruction set read two chunks,
\* the second starting at the 4-byte instruction the first chunk had cut,
\* and emitted that instruction
C26_Witness ==
    /\ last.op = "disassemble" /\ last.err = NoError
    /\ last.max_num = NoMaxNum
    /\ last.isa = ISA_MIXED
    /\ last.address = 12288
    /\ Len(last.reads) = 2
    /\ last.reads[1] = [address |-> 12288, size |-> DISASSEMBLY_CHUNK_SIZE]
    /\ last.reads[2] = [address |-> 12288 + 1022, size |-> 8]
    /\ \E j \in 1..Len(last.insns) :
          last.insns[j] = [address |-> 12288 + 1022, size |-> 4]
    /\ Len(last.insns) = 258

\* the place of a size among the sizes of an instruction set
SizeIndex(isa, size) ==
    CHOOSE i \in 1..Len(isa.insn_sizes) : isa.insn_sizes[i] = size

\* the reads of a disassemble in the unknown-size regime follow the order of
\* the claim: the largest size first, after a failed read the next smaller
\* size at the same address, nothing after a failed read of the smallest
\* size, and after a read that succeeded either nothing (the decoding failed
\* or max_num was reached) or the largest size just past the instruction
UnknownSizeReadOrder ==
    LET n == Len(last.reads)
        sizes == last.isa.insn_sizes
    IN  /\ (last.max_num # 0) =>
              /\ n >= 1
              /\ last.reads[1]
                   = [address |-> last.address, size |-> sizes[Len(sizes)]]
        /\ \A i \in 1..n :
              LET rd == last.reads[i]
                  ok == Read(kind, segs, uc, rd.address, rd.size).err = NoError
              IN  IF ok
                  THEN (i < n) =>
                         /\ last.reads[i + 1].size = sizes[Len(sizes)]
                         /\ \E j \in 1..Len(last.insns) :
                               /\ last.insns[j].address = rd.address
                               /\ last.reads[i + 1].address
                                    = rd.address + last.insns[j].size
                  ELSE IF rd.size = last.isa.min_insn_size
                  THEN i = n
                  ELSE /\ i < n
                       /\ last.reads[i + 1]
                            = [address |-> rd.address,
                               size |-> sizes[SizeIndex(last.isa, rd.size) - 1]]

\* C27: a disassemble that starts in no segment tries the sizes of the
\* instruction set in descending order for each instruction, decodes the
\* first size whose read succeeds, emits the instruction and advances by its
\* size; a failed read of the smallest size and a failed decoding end the
\* iteration without error.
C27_UnknownSizeRegime ==
    (last.op = "disassemble"
     /\ GetSegmentByAddress(segs, last.address) = 0) =>
        /\ last.err = NoError
        /\ UnknownSizeReadOrder

\* C27 where reads of unmapped memory raise MemoryAccessError
C27_SplittingUnknownSize ==
    (kind = "splitting") => C27_UnknownSizeRegime

\* C28: allocate(name, size) with a name no segment has never fails with a
\* segment-overlap error, whatever segments exist, zero-size ones and ones
\* below MIN_ALLOC_ADDRESS included: the segment it adds starts at or above
\* the end of every segment there was and shares no address with any.
C28_AllocateNeverOverlaps ==
    [][(last'.op = "allocate" /\ ~NameUsed(segs, last'.name)) =>
          /\ last'.err.cause \notin {"Segment overlap", "UC_ERR_MAP"}
          /\ Len(segs') = Len(segs) + 1
          /\ LET new == segs'[Len(segs')]
             IN  /\ new.name = last'.name
                 /\ \A i \in 1..Len(segs) :
                       /\ segs'[i] = segs[i]
                       /\ new.start >= End(segs[i])
                       /\ new.start >= segs[i].start
                       /\ ~RequestMeets(segs, new.start, new.size)
      ]_vars

\* allocate added a non-empty third segment to a memory that held a segment
\* below MIN_ALLOC_ADDRESS and a zero-size segment, the new segment starting
\* at the address of the zero-size one
C28_Witness ==
    /\ last.op = "allocate"
    /\ last.err = NoError
    /\ Len(segs) = 3
    /\ segs[3].name = last.name
    /\ segs[3].size > 0
    /\ \E i, j \in 1..2 :
          /\ segs[i].start < MIN_ALLOC_ADDRESS /\ segs[i].size > 0
          /\ segs[j].size = 0 /\ segs[j].start = segs[3].start

\* the byte a sparse store d holds at o
DataAt(d, o) == IF o \in DOMAIN d THEN d[o] ELSE 0

\* C29: a successful write(addr, data) changes only the bytes at the
\* addresses of [addr, addr+len(data)): every other byte of every segment
\* (and of the engine), the segments' names, starts, sizes and permissions
\* and the engine's mapped regions are as before; a read changes no state.
C29_WriteFrame ==
    [][/\ (last'.op = "write" /\ last'.err = NoError) =>
            LET inRange(a) == /\ last'.address <= a
                              /\ a < last'.address + Len(last'.data)
            IN  /\ Len(segs') = Len(segs)
                /\ \A i \in 1..Len(segs) :
                      /\ [segs'[i] EXCEPT !.data = segs[i].data] = segs[i]
                      /\ \A o \in DOMAIN segs[i].data
                                    \cup DOMAIN segs'[i].data :
                            ~inRange(segs[i].start + o) =>
                                DataAt(segs'[i].data, o)
                                  = DataAt(segs[i].data, o)
                /\ uc'.regions = uc.regions
                /\ \A a \in DOMAIN uc.mem \cup DOMAIN uc'.mem :
                      ~inRange(a) => DataAt(uc'.mem, a) = DataAt(uc.mem, a)
       /\ (last'.op = "read") => (segs' = segs /\ uc' = uc)
      ]_vars

\* a write has changed the memory and a non-zero byte lies right below or
\* right above the range written, in the segment written to
C29_Witness ==
    /\ last.op = "write"
    /\ last.err = NoError
    /\ last.changed
    /\ Len(last.data) >= 1
    /\ \E a \in {last.address - 1, last.address + Len(last.data)} :
          /\ GetSegmentByAddress(segs, a) # 0
          /\ GetSegmentByAddress(segs, a)
               = GetSegmentByAddress(segs, last.address)
          /\ Read(kind, segs, uc, a, 1).err = NoError
          /\ Read(kind, segs, uc, a, 1).ret # <<0>>

\* C30: the StopReason a run returns reflects only the stop() calls made
\* during that run.  run clears the recorded stopping hook when it starts; a
\* run that returns gives StopReason(HOOK, h) when a hook function called
\* stop() in it, h the last to do so, and StopReason(COUNT) when none did,
\* whatever hook stopped the run before; a stop() called outside every hook
\* function records no hook.
C30_StopReasonOfThisRun ==
    [][/\ (dbg.pos = "idle" /\ dbg'.pos # "idle") => dbg'.stop_hook = 0
       /\ (dbg.pos = "return" /\ dbg'.pos = "idle"
           /\ ~dbg.raised /\ dbg.errno = "")
             => dbg'.result
                  = IF dbg.stoppers = << >> THEN StopReason("COUNT", 0)
                    ELSE StopReason("HOOK", dbg.stoppers[Len(dbg.stoppers)])
       /\ (dbg.pos = "idle" /\ dbg'.pos = "idle")
             => dbg'.stop_hook \in {0, dbg.stop_hook}
       /\ (dbg'.pos = "idle" /\ dbg'.result.type = "HOOK")
             => \E i \in 1..Len(dbg'.stoppers) :
                    dbg'.stoppers[i] = dbg'.result.hook
      ]_vars

\* the second run found the hook that had stopped the first still recorded,
\* entered some hook, none of which called stop(), and returned
\* StopReason(COUNT)
C30_Witness ==
    /\ dbg.pos = "idle"
    /\ dbg.nruns = 2
    /\ dbg.cleared # 0
    /\ dbg.hooks[dbg.cleared].func = "HOOK_BREAK"
    /\ dbg.called # << >>
    /\ dbg.stoppers = << >>
    /\ dbg.result = StopReason("COUNT", 0)

\* C31: every run starts with the memory-fault context (cause and access)
\* cleared, so a run that ends with an engine error and had no
\* invalid-memory event is never reported as a MemFaultError, whatever fault
\* an earlier run left: it is an InvalidInsnError or a CPUError.
C31_FaultContextClearedPerRun ==
    [][/\ (dbg.pos = "idle" /\ dbg'.pos # "idle")
             => (dbg'.fault_cause = "" /\ dbg'.fault_access = << >>)
       /\ (dbg.pos = "return" /\ dbg'.pos = "idle" /\ dbg.errno # ""
           /\ dbg.events = << >>)
             => /\ dbg'.result.type # "MemFaultError"
                /\ dbg'.result =
                     IF dbg.errno = "UC_ERR_INSN_INVALID"
                     THEN InvalidInsnError(dbg.pc)
                     ELSE CPUError(dbg.errno, dbg.pc)
      ]_vars

\* a run found the fault cause of the run before it, met no invalid-memory
\* event and ended with an engine error
C31_Witness ==
    /\ dbg.pos = "idle"
    /\ dbg.nruns >= 2
    /\ dbg.faulted # ""
    /\ dbg.events = << >>
    /\ dbg.errno # ""
    /\ dbg.result.type \in {"InvalidInsnError", "CPUError"}

\* the ranges the segment index records, as the engine would hold them
SegmentRanges(ss) ==
    {[start |-> ss[i].start, size |-> ss[i].size,
      prot |-> perms_to_uc_prot(ss[i].perms)] : i \in 1..Len(ss)}

\* C32: in the emulator-backed memory, after a map call, successful or
\* failed (a failure of the engine's own mapping call included), a range is
\* recorded as a segment if and only if the engine has it mapped with the
\* same start, size and permissions.
C32_SegmentsMatchEngine ==
    (kind = "unicorn" /\ last.op = "map") => SegmentRanges(segs) = uc.regions

\* the hook was installed by Emulator.trace
IsTraceHook(id) == dbg.hooks[id].address = -1

\* C33: after trace calls followed by stop_trace(), no callback installed
\* by those calls is invoked in the runs that follow: while no trace is
\* set, a run enters no hook that trace installed.
C33_NoTraceAfterStopTrace ==
    (dbg.pos # "idle" /\ dbg.trace_hook = 0) =>
        \A i \in 1..Len(dbg.called) : ~IsTraceHook(dbg.called[i])

\* the segments with every permission granted
AllRWX(ss) == [i \in 1..Len(ss) |-> [ss[i] EXCEPT !.perms = RWX]]

\* the engine with every region readable, writable and executable
EngineAllRWX(u) ==
    [u EXCEPT !.regions = {[r EXCEPT !.prot = perms_to_uc_prot(RWX)] :
                              r \in u.regions}]

\* C34: Memory.read and Memory.write never check segment permissions: a
\* write into a segment without W and a read from a segment without R end
\* exactly as they would were every segment RWX, same result, same bytes
\* written, same error; an access fails only when its range reaches an
\* address in no segment, never with cause 'protected'.
C34_PermissionsNeverChecked ==
    [][/\ (last'.op = "write") =>
            LET w == Write(kind, AllRWX(segs), EngineAllRWX(uc),
                           last'.address, last'.data)
            IN  /\ w.err = last'.err
                /\ w.segs = AllRWX(segs')
                /\ w.uc = EngineAllRWX(uc')
       /\ (last'.op = "read") =>
            LET r == Read(kind, AllRWX(segs), EngineAllRWX(uc),
                          last'.address, last'.size)
            IN  r.err = last'.err /\ r.ret = last'.ret
       /\ (last'.op \in {"read", "write"}) =>
            /\ last'.err.cause # "protected"
            /\ (last'.err # NoError)
                  => Gap(segs, last'.address, last'.size)
      ]_vars

\* a read of a segment that grants neither R nor W returned a byte that a
\* write had stored there
C34_Witness ==
    /\ last.op = "read"
    /\ last.err = NoError
    /\ Len(last.ret) >= 1
    /\ GetSegmentByAddress(segs, last.address) # 0
    /\ segs[GetSegmentByAddress(segs, last.address)].perms = X
    /\ last.ret[1] = 32

\* C35: a read of size 0 and a write of empty data succeed at any address,
\* mapped or not: the read returns empty bytes, the write changes nothing,
\* and no unmapped-access error is raised.
C35_EmptyAccessSucceeds ==
    [][/\ (last'.op = "read" /\ last'.size = 0) =>
            /\ last'.err = NoError
            /\ last'.ret = << >>
            /\ segs' = segs /\ uc' = uc
       /\ (last'.op = "write" /\ last'.data = << >>) =>
            /\ last'.err = NoError
            /\ segs' = segs /\ uc' = uc
      ]_vars

\* a write of empty data at an address in no segment of a memory that holds
\* segments has returned
C35_Witness ==
    /\ last.op = "write"
    /\ last.data = << >>
    /\ last.err = NoError
    /\ segs # << >>
    /\ GetSegmentByAddress(segs, last.address) = 0

====
